---------------------------- MODULE Spec2Model ----------------------------
(***************************************************************************)
(* A model of the assembly -> PIL converter (pilgen/src/pil_converter.rs)  *)
(* and of the monolithic linker (linker/src/lib.rs).                        *)
(*                                                                         *)
(* Both programs are single-threaded passes over an input.  Each pass is   *)
(* modelled as a state machine whose steps are the iterations of the       *)
(* pass's outer loop; the input is drawn at Init from bounded sets.        *)
(*                                                                         *)
(*   SpecLink : link(graph)                      (linker/src/lib.rs)       *)
(***************************************************************************)
EXTENDS Integers, Sequences, FiniteSets, TLC

VARIABLES
    \* ---- linker: link(graph) ----
    graph,        \* the PILGraph handed to link: main, entry_points, objects
    link_pos,     \* number of objects of graph.objects already consumed by flat_map
    errors,       \* link's `errors` vector
    link_pil,     \* the statements collected so far
    link_result,  \* <<>> while running, then <<[tag |-> "Err"/"Ok", ...]>>
    \* ---- converter: ASMPILConverter::convert(batched_asm) ----
    converter,    \* the ASMPILConverter (self)
    declarations, \* the declarations of batched_asm not yet handled
    handled,      \* the batches handled so far, in order
    conv_pc,      \* "start", "run", "done" or "panic"
    conv_error,   \* the panic message
    conv_out,     \* the statements convert returns
    \* ---- Register::update_expression ----
    upd_register, \* the Register (self)
    upd_result    \* <<>>, then <<the value update_expression returns>>

link_vars == <<graph, link_pos, errors, link_pil, link_result>>

conv_vars == <<converter, declarations, handled, conv_pc, conv_error, conv_out>>

upd_vars == <<upd_register, upd_result>>

vars == <<graph, link_pos, errors, link_pil, link_result,
          converter, declarations, handled, conv_pc, conv_error, conv_out,
          upd_register, upd_result>>

(***************************************************************************)
(* Generic helpers                                                         *)
(***************************************************************************)

\* Option<T>: None is <<>>, Some(x) is <<x>>.
None == <<>>

Some(x) == <<x>>

IsSome(o) == Len(o) = 1

RECURSIVE Flatten(_)
\* Iterator::flat_map / concatenation of a sequence of sequences.
Flatten(ss) == IF ss = <<>> THEN <<>> ELSE Head(ss) \o Flatten(Tail(ss))

\* All sequences over S of length at most n.
SeqsUpTo(S, n) == UNION {[1..k -> S] : k \in 0..n}

Range(s) == {s[i] : i \in DOMAIN s}

(***************************************************************************)
(* Linker: bounds and input sets                                           *)
(***************************************************************************)

\* Largest number of outbound links of one object.
MaxLinks == 2

DEFAULT_DEGREE == 1024

MAIN_FUNCTION_NAME == "main"

\* The locations of the graph, in the order of BTreeMap<Location, _>
\* (derived Ord on the Vec<String> of limbs: lexicographic).
Locations == << <<"foo">>, <<"main">>, <<"main", "sub">> >>

\* Location's Display: the limbs joined by "_".
LocationToString(loc) ==
    CASE loc = <<"foo">> -> "foo"
      [] loc = <<"main">> -> "main"
      [] loc = <<"main", "sub">> -> "main_sub"

\* graph.main.location: Location::main()
MainLocation == <<"main">>

\* Location::default().join("main")
RootLocation == <<>> \o <<"main">>

Degrees == {None, Some(8), Some(1024)}

\* Expression::Number
Number(n) == [kind |-> "Number", value |-> n]

\* direct_reference: a PolynomialReference without namespace.
direct_reference(name) ==
    [kind |-> "PolynomialReference", namespace |-> None, name |-> name,
     index |-> None, next |-> FALSE]

\* namespaced_reference: a PolynomialReference in the given namespace.
namespaced_reference(ns, name) ==
    [kind |-> "PolynomialReference", namespace |-> Some(ns), name |-> name,
     index |-> None, next |-> FALSE]

\* The identities an object carries (object.pil), opaque to the linker.
ObjectPil(loc) ==
    CASE loc = <<"foo">> -> << [kind |-> "PolynomialIdentity", id |-> "foo_1"] >>
      [] loc = <<"main">> -> << [kind |-> "PolynomialIdentity", id |-> "main_1"],
                                [kind |-> "PolynomialIdentity", id |-> "main_2"] >>
      [] loc = <<"main", "sub">> -> << >>

\* Link sources: the caller's flags and its arguments (LinkFrom).
FromAdd ==
    [instr_flag |-> "instr_add", link_flag |-> "link_add",
     inputs |-> <<"x", "y">>, outputs |-> Some(<<"z">>)]

FromNop ==
    [instr_flag |-> "instr_nop", link_flag |-> "instr_nop",
     inputs |-> <<>>, outputs |-> None]

\* Link targets: a machine and one of its callables (LinkTo).
ToFooAdd ==
    [machine |-> [location |-> <<"foo">>, latch |-> "latch",
                  function_id |-> "operation_id"],
     function |-> [name |-> "add", id |-> 2,
                   inputs |-> <<"a", "b">>, outputs |-> Some(<<"c">>)]]

ToSubNop ==
    [machine |-> [location |-> <<"main", "sub">>, latch |-> "sel",
                  function_id |-> "op"],
     function |-> [name |-> "nop", id |-> 3,
                   inputs |-> <<>>, outputs |-> None]]

\* The links an object at loc may carry: main calls foo and main_sub,
\* main_sub calls foo, foo calls nobody.
Links(loc) ==
    CASE loc = <<"main">> ->
            { [from |-> FromAdd, to |-> ToFooAdd, is_permutation |-> FALSE],
              [from |-> FromAdd, to |-> ToFooAdd, is_permutation |-> TRUE],
              [from |-> FromNop, to |-> ToSubNop, is_permutation |-> FALSE] }
      [] loc = <<"main", "sub">> ->
            { [from |-> FromAdd, to |-> ToFooAdd, is_permutation |-> TRUE] }
      [] loc = <<"foo">> -> {}

Objects(loc) ==
    [degree : Degrees, pil : {ObjectPil(loc)}, links : SeqsUpTo(Links(loc), MaxLinks)]

\* graph.entry_points
EntryPoints ==
    { <<>>,
      << [name |-> "other", id |-> 5] >>,
      << [name |-> "other", id |-> 5], [name |-> "main", id |-> 7] >> }

\* The sets of locations a graph may hold, each as the subsequence of
\* Locations that BTreeMap iteration yields.
RECURSIVE SubSeqs(_)
SubSeqs(s) ==
    IF s = <<>> THEN { <<>> }
    ELSE LET rest == SubSeqs(Tail(s))
         IN rest \cup { <<Head(s)>> \o r : r \in rest }

\* A graph over the locations ks with main machine at m: graph.main names an
\* object of the graph (link unwraps graph.objects.get(&main_machine.location)).
Graph(ks, m, entry_points, foo, main, sub) ==
    [ main |-> [location |-> m, latch |-> "latch", function_id |-> "_function_id"],
      entry_points |-> entry_points,
      keys |-> ks,
      objects |-> [l \in Range(ks) |->
                      CASE l = <<"foo">> -> foo
                        [] l = <<"main">> -> main
                        [] l = <<"main", "sub">> -> sub] ]

\* The converter's variables while link runs: no conversion under way.
ConvIdle ==
    /\ converter = <<>>
    /\ declarations = <<>>
    /\ handled = <<>>
    /\ conv_pc = "idle"
    /\ conv_error = ""
    /\ conv_out = <<>>

\* The variables of update_expression while it is not called.
UpdIdle ==
    /\ upd_register = <<>>
    /\ upd_result = <<>>

\* The linker's variables while convert runs: no link under way.
LinkIdle ==
    /\ graph = <<>>
    /\ link_pos = 0
    /\ errors = <<>>
    /\ link_pil = <<>>
    /\ link_result = <<>>

(***************************************************************************)
(* Linker: link                                                            *)
(***************************************************************************)

\* main_degree: the main object's degree, or the default.
MainDegree(g) ==
    LET d == g.objects[g.main.location].degree
    IN IF IsSome(d) THEN d[1] ELSE DEFAULT_DEGREE

\* format!("Machine {location} should have degree {main_degree}, found {}", degree)
MismatchMessage(loc, main_degree, degree) ==
    <<"Machine", LocationToString(loc), "should have degree", main_degree,
      "found", degree>>

\* The left side of a link: the flag and the caller's arguments.
LinkLhs(link) ==
    [selector |-> Some(direct_reference(link.from.instr_flag)),
     expressions |->
        <<Number(link.to.function.id)>> \o
        [i \in 1..Len(link.from.inputs \o Flatten(link.from.outputs)) |->
            direct_reference((link.from.inputs \o Flatten(link.from.outputs))[i])]]

\* The right side of a link: the callee's latch and declared parameters.
LinkRhs(link) ==
    LET to_namespace == LocationToString(link.to.machine.location)
        params == link.to.function.inputs \o Flatten(link.to.function.outputs)
    IN [selector |-> Some(namespaced_reference(to_namespace, link.to.machine.latch)),
        expressions |->
           <<namespaced_reference(to_namespace, link.to.machine.function_id)>> \o
           [i \in 1..Len(params) |-> namespaced_reference(to_namespace, params[i])]]

\* The statement pushed for one link.
LinkStatement(link) ==
    [kind |-> "PlookupIdentity", left |-> LinkLhs(link), right |-> LinkRhs(link)]

\* The two statements that force the main function on the first row.
MainFunctionStatements(g, main_function) ==
    << [kind |-> "PolynomialConstantDefinition", name |-> "_linker_first_step",
        values |-> <<1>>, repeated |-> <<0>>],
       [kind |-> "PolynomialIdentity",
        first_step |-> "_linker_first_step",
        function_id |-> g.main.function_id,
        main_function_id |-> main_function.id] >>

\* The first entry point called MAIN_FUNCTION_NAME, if any (Iterator::find).
FindMainFunction(g) ==
    LET hits == {i \in DOMAIN g.entry_points : g.entry_points[i].name = MAIN_FUNCTION_NAME}
    IN IF hits = {} THEN None
       ELSE Some(g.entry_points[CHOOSE i \in hits : \A j \in hits : i <= j])

\* Mutant of ObjectBlock: the namespace declares the object's own degree.
ObjectBlockOwnDegree(g, location) ==
    LET object == g.objects[location]
        main_function == FindMainFunction(g)
        own == IF IsSome(object.degree) THEN object.degree[1] ELSE DEFAULT_DEGREE
    IN << [kind |-> "Namespace", name |-> LocationToString(location),
           degree |-> Number(own)] >>
       \o object.pil
       \o [i \in 1..Len(object.links) |-> LinkStatement(object.links[i])]
       \o (IF location = RootLocation /\ IsSome(main_function)
           THEN MainFunctionStatements(g, main_function[1])
           ELSE <<>>)

\* Mutant of ObjectBlock: the main function is forced in every machine.
ObjectBlockEveryMachine(g, location) ==
    LET object == g.objects[location]
        main_function == FindMainFunction(g)
    IN << [kind |-> "Namespace", name |-> LocationToString(location),
           degree |-> Number(MainDegree(g))] >>
       \o object.pil
       \o [i \in 1..Len(object.links) |-> LinkStatement(object.links[i])]
       \o (IF IsSome(main_function)
           THEN MainFunctionStatements(g, main_function[1])
           ELSE <<>>)

\* Mutant of ObjectBlock: the links come before the machine's identities.
ObjectBlockLinksFirst(g, location) ==
    LET object == g.objects[location]
        main_function == FindMainFunction(g)
    IN << [kind |-> "Namespace", name |-> LocationToString(location),
           degree |-> Number(MainDegree(g))] >>
       \o [i \in 1..Len(object.links) |-> LinkStatement(object.links[i])]
       \o object.pil
       \o (IF location = RootLocation /\ IsSome(main_function)
           THEN MainFunctionStatements(g, main_function[1])
           ELSE <<>>)

\* The statements the flat_map closure returns for one (location, object).
ObjectBlock(g, location) ==
    LET object == g.objects[location]
        main_function == FindMainFunction(g)
    IN << [kind |-> "Namespace", name |-> LocationToString(location),
           degree |-> Number(MainDegree(g))] >>
       \o object.pil
       \o [i \in 1..Len(object.links) |-> LinkStatement(object.links[i])]
       \o (IF location = RootLocation /\ IsSome(main_function)
           THEN MainFunctionStatements(g, main_function[1])
           ELSE <<>>)

\* Mutant of ObjectErrors: fail fast, only the first mismatch is recorded.
ObjectErrorsFailFast(g, location) ==
    LET degree == g.objects[location].degree
        mismatch(l) == IsSome(g.objects[l].degree)
                       /\ g.objects[l].degree[1] # MainDegree(g)
        first == CHOOSE i \in DOMAIN g.keys :
                    /\ mismatch(g.keys[i])
                    /\ \A j \in 1..(i - 1) : ~mismatch(g.keys[j])
    IN IF mismatch(location) /\ g.keys[first] = location
       THEN << MismatchMessage(location, MainDegree(g), degree[1]) >>
       ELSE <<>>

\* The errors the closure pushes for one (location, object).
ObjectErrors(g, location) ==
    LET degree == g.objects[location].degree
    IN IF IsSome(degree) /\ degree[1] # MainDegree(g)
       THEN << MismatchMessage(location, MainDegree(g), degree[1]) >>
       ELSE <<>>

LinkInit ==
    /\ \E ks \in {k \in SubSeqs(Locations) : MainLocation \in Range(k)} :
       \E m \in {MainLocation}, entry_points \in EntryPoints :
       \E foo \in Objects(<<"foo">>), main \in Objects(<<"main">>),
          sub \in Objects(<<"main", "sub">>) :
          graph = Graph(ks, m, entry_points, foo, main, sub)
    /\ link_pos = 0
    /\ errors = <<>>
    /\ link_pil = <<>>
    /\ link_result = None
    /\ ConvIdle
    /\ UpdIdle

\* One iteration of the flat_map over graph.objects.
LinkObject ==
    /\ link_result = None
    /\ link_pos < Len(graph.keys)
    /\ LET location == graph.keys[link_pos + 1]
       IN /\ errors' = errors \o ObjectErrors(graph, location)
          /\ link_pil' = link_pil \o ObjectBlock(graph, location)
    /\ link_pos' = link_pos + 1
    /\ UNCHANGED <<graph, link_result>>
    /\ UNCHANGED conv_vars
    /\ UNCHANGED upd_vars

\* The end of link: Err(errors) if any error was pushed, else Ok(PILFile(pil)).
LinkReturn ==
    /\ link_result = None
    /\ link_pos = Len(graph.keys)
    /\ link_result' = IF errors # <<>>
                      THEN Some([tag |-> "Err", errors |-> errors, pil |-> <<>>])
                      ELSE Some([tag |-> "Ok", errors |-> <<>>, pil |-> link_pil])
    /\ UNCHANGED <<graph, link_pos, errors, link_pil>>
    /\ UNCHANGED conv_vars
    /\ UNCHANGED upd_vars

LinkNext == LinkObject \/ LinkReturn

SpecLink == LinkInit /\ [][LinkNext]_vars


(***************************************************************************)
(* Converter: the field, names and expressions                             *)
(***************************************************************************)

\* The modulus of the field T (scaled down from the Goldilocks prime).
FieldModulus == 7

FieldElements == 0..(FieldModulus - 1)

\* T::from(n) for an unsigned integer n.
ToField(n) == n % FieldModulus

FAdd(a, b) == (a + b) % FieldModulus

FNeg(a) == (FieldModulus - a) % FieldModulus

FMul(a, b) == (a * b) % FieldModulus

\* FieldElement::is_in_lower_half: the canonical value is at most (p - 1) / 2.
is_in_lower_half(n) == n <= (FieldModulus - 1) \div 2

\* A name (of a register, an instruction, a column) is the sequence of the
\* pieces that format! joins with "_": format!("instr_{name}") of the name
\* <<"jmp">> is <<"instr", "jmp">>.
\* The pieces in byte order, for the iteration order of BTreeMap<String, _>.
TokenOrder ==
    << "A", "B", "X", "Y", "adj", "amount", "const", "first_step", "free_value",
       "inc", "instr", "jmp", "l", "l1", "l2", "line", "nop", "p", "param", "pc",
       "read", "read_free", "reg_write", "t", "w2", "wr", "wy" >>

TokenRanks == [t \in Range(TokenOrder) |-> CHOOSE i \in DOMAIN TokenOrder : TokenOrder[i] = t]

TokenRank(t) == TokenRanks[t]

RECURSIVE NameLess(_, _)
\* Ord of String on two names (no piece of the model's names is a prefix
\* of another piece that the comparison could meet at the same position).
NameLess(a, b) ==
    IF a = <<>> THEN b # <<>>
    ELSE IF b = <<>> THEN FALSE
    ELSE IF Head(a) = Head(b) THEN NameLess(Tail(a), Tail(b))
    ELSE TokenRank(Head(a)) < TokenRank(Head(b))

\* The keys of a BTreeMap<String, _> in iteration order.
SortNames(S) ==
    LET before == [x \in S |-> Cardinality({y \in S : NameLess(y, x)})]
    IN [i \in 1..Cardinality(S) |-> CHOOSE x \in S : before[x] = i - 1]

\* An empty BTreeMap / HashMap.
EmptyMap == [k \in {} |-> 0]

\* BTreeMap::extend: the entries of b are inserted into a, replacing the
\* value of a key that a already holds.
MapExtend(a, b) ==
    [k \in DOMAIN a \cup DOMAIN b |-> IF k \in DOMAIN b THEN b[k] ELSE a[k]]

next_reference(name) ==
    [kind |-> "PolynomialReference", namespace |-> None, name |-> name,
     index |-> None, next |-> TRUE]

build_binary_expr(left, op, right) ==
    [kind |-> "BinaryOperation", left |-> left, op |-> op, right |-> right]

build_mul(left, right) == build_binary_expr(left, "Mul", right)

build_sub(left, right) == build_binary_expr(left, "Sub", right)

build_add(left, right) == build_binary_expr(left, "Add", right)

build_unary_expr(op, exp) == [kind |-> "UnaryOperation", op |-> op, expr |-> exp]

build_number(value) == Number(ToField(value))

\* Expression::FreeInput
FreeInput(expr) == [kind |-> "FreeInput", expr |-> expr]

witness_column(name, def) ==
    [kind |-> "PolynomialCommitDeclaration", name |-> name, def |-> def]

PolynomialIdentity(expr) == [kind |-> "PolynomialIdentity", expr |-> expr]

\* ArrayExpression::Value(values).pad_with_last(), or the repeated zero
\* for an empty array.
PadWithLast(values) ==
    IF values = <<>>
    THEN [values |-> <<>>, repeated |-> <<Number(0)>>]
    ELSE [values |-> values, repeated |-> <<values[Len(values)]>>]

PolynomialConstantDefinition(name, array) ==
    [kind |-> "PolynomialConstantDefinition", name |-> name, array |-> array]

substitute_string(input, substitution) ==
    IF input \in DOMAIN substitution THEN substitution[input] ELSE input

RECURSIVE substitute(_, _)
substitute(input, substitution) ==
    CASE input.kind = "PolynomialReference" ->
            [input EXCEPT !.name = substitute_string(input.name, substitution)]
      [] input.kind = "BinaryOperation" ->
            build_binary_expr(substitute(input.left, substitution), input.op,
                              substitute(input.right, substitution))
      [] input.kind = "UnaryOperation" ->
            build_unary_expr(input.op, substitute(input.expr, substitution))
      [] OTHER -> input

substitute_vec(input, substitution) ==
    [i \in DOMAIN input |-> substitute(input[i], substitution)]

substitute_selected_exprs(input, substitution) ==
    [selector |-> IF IsSome(input.selector)
                  THEN Some(substitute(input.selector[1], substitution))
                  ELSE None,
     expressions |-> substitute_vec(input.expressions, substitution)]

\* extract_update taking every difference with a reference on the left for an
\* update.
extract_update_any_reference(expr) ==
    IF expr.kind = "BinaryOperation" /\ expr.op = "Sub"
       /\ expr.left.kind = "PolynomialReference"
    THEN [var |-> Some(expr.left.name), expr |-> expr.right]
    ELSE [var |-> None, expr |-> expr]

\* (Some(reg), rhs) for next(reg) - rhs, else (None, expr).
extract_update(expr) ==
    IF expr.kind = "BinaryOperation" /\ expr.op = "Sub"
    THEN IF expr.left.kind = "PolynomialReference" /\ expr.left.next
         THEN [var |-> Some(expr.left.name), expr |-> expr.right]
         ELSE [var |-> None, expr |-> build_binary_expr(expr.left, "Sub", expr.right)]
    ELSE [var |-> None, expr |-> expr]

RECURSIVE ReduceAdd(_)
\* Iterator::reduce(build_add) on a non-empty sequence.
ReduceAdd(exprs) ==
    IF Len(exprs) = 1 THEN exprs[1]
    ELSE build_add(ReduceAdd(SubSeq(exprs, 1, Len(exprs) - 1)), exprs[Len(exprs)])

(***************************************************************************)
(* Converter: Register                                                     *)
(***************************************************************************)

\* Mutant of update_expression: the default is dropped as soon as there is
\* a conditioned update.
update_expression_no_default(reg) ==
    IF Len(reg.conditioned_updates) = 0 THEN reg.default_update
    ELSE Some(ReduceAdd([i \in DOMAIN reg.conditioned_updates |->
                build_mul(reg.conditioned_updates[i][1], reg.conditioned_updates[i][2])]))

\* Register::update_expression: the expression assigned to the register in
\* the next row, if any.
update_expression(reg) ==
    LET updates == [i \in DOMAIN reg.conditioned_updates |->
                       build_mul(reg.conditioned_updates[i][1],
                                 reg.conditioned_updates[i][2])]
        conds == [i \in DOMAIN reg.conditioned_updates |->
                       reg.conditioned_updates[i][1]]
    IN IF Len(reg.conditioned_updates) = 0 THEN reg.default_update
       ELSE IF reg.default_update = None THEN Some(ReduceAdd(updates))
       ELSE Some(build_add(ReduceAdd(updates),
                           build_mul(build_sub(build_number(1), ReduceAdd(conds)),
                                     reg.default_update[1])))


(***************************************************************************)
(* Converter: ASMPILConverter and the declarations                         *)
(***************************************************************************)

\* ASMPILConverter::default()
NewConverter ==
    [pil |-> <<>>, pc_name |-> None, registers |-> EmptyMap,
     instructions |-> EmptyMap, code_lines |-> <<>>, line_lookup |-> <<>>,
     program_constant_names |-> <<>>]

\* CodeLine::default()
DefaultCodeLine ==
    [write_regs |-> EmptyMap, value |-> EmptyMap, label |-> None,
     instructions |-> <<>>]

\* create_witness_fixed_pair without the entry in the lookup.
create_witness_fixed_pair_unmatched(self, name) ==
    LET fixed_name == <<"p">> \o name
    IN [self EXCEPT !.pil = Append(@, witness_column(name, None)),
                    !.program_constant_names = Append(@, fixed_name)]

\* Creates a pair of witness and fixed column and matches them in the lookup.
create_witness_fixed_pair(self, name) ==
    LET fixed_name == <<"p">> \o name
    IN [self EXCEPT !.pil = Append(@, witness_column(name, None)),
                    !.line_lookup = Append(@, <<name, fixed_name>>),
                    !.program_constant_names = Append(@, fixed_name)]

RECURSIVE create_witness_fixed_pairs(_, _)
\* create_witness_fixed_pair for each name, in order.
create_witness_fixed_pairs(self, names) ==
    IF names = <<>> THEN self
    ELSE create_witness_fixed_pairs(create_witness_fixed_pair(self, Head(names)),
                                    Tail(names))

\* assignment_registers without the filter on is_assignment.
assignment_registers_unfiltered(self) == SortNames(DOMAIN self.registers)

assignment_registers(self) ==
    SelectSeq(SortNames(DOMAIN self.registers),
              LAMBDA n : self.registers[n].is_assignment)

\* regular_registers keeping the assignment registers instead.
regular_registers_assignment(self) ==
    SelectSeq(SortNames(DOMAIN self.registers),
              LAMBDA n : self.registers[n].is_assignment)

regular_registers(self) ==
    SelectSeq(SortNames(DOMAIN self.registers),
              LAMBDA n : ~self.registers[n].is_assignment)

\* RegisterFlag
IsPC == Some("IsPC")

IsAssignment == Some("IsAssignment")

handle_register_declaration(self, flags, name) ==
    LET assignment_regs == assignment_registers(self)
        write_flags == [i \in DOMAIN assignment_regs |->
                           <<"reg_write">> \o assignment_regs[i] \o name]
        self1 ==
            CASE flags = IsPC ->
                    [self EXCEPT !.pc_name = Some(name),
                                 !.line_lookup = Append(@, <<name, <<"p", "line">>>>)]
              [] flags = IsAssignment -> self
              [] flags = None ->
                    create_witness_fixed_pairs(
                        [self EXCEPT !.pil = Append(@, PolynomialIdentity(
                            build_mul(direct_reference(<<"first_step">>),
                                      direct_reference(name))))],
                        write_flags)
        conditioned_updates ==
            IF flags = None
            THEN << <<next_reference(<<"first_step">>), build_number(0)>> >>
                 \o [i \in DOMAIN assignment_regs |->
                        <<direct_reference(write_flags[i]),
                          direct_reference(assignment_regs[i])>>]
            ELSE <<>>
        default_update ==
            CASE flags = IsPC -> Some(build_add(direct_reference(name), build_number(1)))
              [] flags = IsAssignment -> None
              [] flags = None -> Some(direct_reference(name))
    IN [self1 EXCEPT
          !.registers = MapExtend(@, name :> [conditioned_updates |-> conditioned_updates,
                                               default_update |-> default_update,
                                               is_assignment |-> flags = IsAssignment]),
          !.pil = Append(@, witness_column(name, None))]

\* LiteralKind
Label == "Label"

SignedConstant == "SignedConstant"

UnsignedConstant == "UnsignedConstant"

\* Input::Register / Input::Literal by the declared type of the parameter.
InputOfParam(param) ==
    CASE param.ty = Some("label") -> [kind |-> "Literal", name |-> param.name, lit |-> Label]
      [] param.ty = Some("signed") ->
            [kind |-> "Literal", name |-> param.name, lit |-> SignedConstant]
      [] param.ty = Some("unsigned") ->
            [kind |-> "Literal", name |-> param.name, lit |-> UnsignedConstant]
      [] param.ty = None -> [kind |-> "Register", name |-> param.name, lit |-> "None"]

\* Instruction::literal_arg_names
literal_arg_names(instr) ==
    LET lits == SelectSeq(instr.inputs, LAMBDA input : input.kind = "Literal")
    IN [i \in DOMAIN lits |-> lits[i].name]

RECURSIVE handle_instruction_body(_, _, _, _)
\* The loop of handle_instruction_def over the body of the instruction.
handle_instruction_body(self, body, instruction_flag, substitutions) ==
    IF body = <<>> THEN self
    ELSE
      LET elem == Head(body)
          self1 ==
            IF elem.kind = "Expression"
            THEN LET upd == extract_update(substitute(elem.expr, substitutions))
                 IN IF IsSome(upd.var)
                    THEN [self EXCEPT !.registers[upd.var[1]].conditioned_updates =
                             Append(@, <<direct_reference(instruction_flag), upd.expr>>)]
                    ELSE [self EXCEPT !.pil = Append(@, PolynomialIdentity(
                             build_mul(direct_reference(instruction_flag), upd.expr)))]
            ELSE [self EXCEPT !.pil = Append(@,
                     [kind |-> IF elem.op = "In" THEN "PlookupIdentity"
                                                 ELSE "PermutationIdentity",
                      left |-> [selector |-> Some(direct_reference(instruction_flag)),
                                expressions |-> substitute_vec(elem.left.expressions,
                                                               substitutions)],
                      right |-> substitute_selected_exprs(elem.right, substitutions)])]
      IN handle_instruction_body(self1, Tail(body), instruction_flag, substitutions)

handle_instruction_def(self, body, name, params) ==
    LET instruction_flag == <<"instr">> \o name
        inputs == [i \in DOMAIN params.inputs |-> InputOfParam(params.inputs[i])]
        outputs == IF IsSome(params.outputs)
                   THEN [i \in DOMAIN params.outputs[1] |-> params.outputs[1][i].name]
                   ELSE <<>>
        instr == [inputs |-> inputs, outputs |-> outputs]
        arg_names == literal_arg_names(instr)
        param_col_names == [i \in DOMAIN arg_names |->
                               <<"instr">> \o name \o <<"param">> \o arg_names[i]]
        substitutions == [a \in Range(arg_names) |->
                             <<"instr">> \o name \o <<"param">> \o a]
        self1 == create_witness_fixed_pairs(create_witness_fixed_pair(self, instruction_flag),
                                            param_col_names)
        self2 == handle_instruction_body(self1, body, instruction_flag, substitutions)
    IN [self2 EXCEPT !.instructions = MapExtend(@, name :> instr)]

handle_inline_pil(self, statements) == [self EXCEPT !.pil = @ \o statements]


(***************************************************************************)
(* Converter: the statements of a batch                                    *)
(***************************************************************************)

\* A result of a function that may panic.
Ok(v) == [ok |-> TRUE, v |-> v, err |-> ""]

Panic(msg) == [ok |-> FALSE, v |-> <<>>, err |-> msg]

\* AffineExpressionComponent
Register(name) == [kind |-> "Register", arg |-> name]

Constant == [kind |-> "Constant", arg |-> <<>>]

FreeInputComponent(expr) == [kind |-> "FreeInput", arg |-> expr]

\* InstructionLiteralArg
LabelRef(name) == [kind |-> "LabelRef", arg |-> name]

NumberArg(n) == [kind |-> "Number", arg |-> n]

RECURSIVE FPow(_, _)
FPow(b, e) == IF e = 0 THEN 1 % FieldModulus ELSE FMul(b, FPow(b, e - 1))

add_assignment_value(left, right) == left \o right

\* negate_assignment_value that keeps the coefficients.
negate_assignment_value_kept(expr) == expr

negate_assignment_value(expr) ==
    [i \in DOMAIN expr |-> <<FNeg(expr[i][1]), expr[i][2]>>]

\* The terms of expr with every coefficient multiplied by f.
ScaleTerms(f, expr) == [i \in DOMAIN expr |-> <<FMul(f, expr[i][1]), expr[i][2]>>]

IsSingleConstant(terms) == Len(terms) = 1 /\ terms[1][2] = Constant

\* r.to_arbitrary_integer() > u32::MAX, that is r > 2^32 - 1, computed on
\* 16-bit halves.
ExceedsU32(r) == r \div 65536 > 65535

\* Mutant of BinaryValue: a product of two constants is rejected.
BinaryValueOneConstant(op, left, right) ==
    IF ~left.ok THEN left
    ELSE IF ~right.ok THEN right
    ELSE CASE op = "Add" -> Ok(add_assignment_value(left.v, right.v))
           [] op = "Sub" ->
                Ok(add_assignment_value(left.v, negate_assignment_value(right.v)))
           [] op = "Mul" ->
                IF IsSingleConstant(left.v) /\ IsSingleConstant(right.v)
                THEN Panic("Multiplication by non-constant.")
                ELSE IF IsSingleConstant(left.v)
                THEN Ok(ScaleTerms(left.v[1][1], right.v))
                ELSE IF IsSingleConstant(right.v)
                THEN Ok(ScaleTerms(right.v[1][1], left.v))
                ELSE Panic("Multiplication by non-constant.")
           [] op = "Pow" ->
                IF IsSingleConstant(left.v) /\ IsSingleConstant(right.v)
                THEN IF ExceedsU32(right.v[1][1])
                     THEN Panic("Exponent too large")
                     ELSE Ok(<< <<FPow(left.v[1][1], right.v[1][1]), Constant>> >>)
                ELSE Panic("Exponentiation of non-constants.")

\* The arms of match op of a BinaryOperation other than the invalid
\* operators, on the reduced operands.
BinaryValue(op, left, right) ==
    IF ~left.ok THEN left
    ELSE IF ~right.ok THEN right
    ELSE CASE op = "Add" -> Ok(add_assignment_value(left.v, right.v))
           [] op = "Sub" ->
                Ok(add_assignment_value(left.v, negate_assignment_value(right.v)))
           [] op = "Mul" ->
                IF IsSingleConstant(left.v)
                THEN Ok(ScaleTerms(left.v[1][1], right.v))
                ELSE IF IsSingleConstant(right.v)
                THEN Ok(ScaleTerms(right.v[1][1], left.v))
                ELSE Panic("Multiplication by non-constant.")
           [] op = "Pow" ->
                IF IsSingleConstant(left.v) /\ IsSingleConstant(right.v)
                THEN IF ExceedsU32(right.v[1][1])
                     THEN Panic("Exponent too large")
                     ELSE Ok(<< <<FPow(left.v[1][1], right.v[1][1]), Constant>> >>)
                ELSE Panic("Exponentiation of non-constants.")

\* The arm of a UnaryOperation (minus) on the reduced operand.
UnaryValue(inner) ==
    IF inner.ok THEN Ok(negate_assignment_value(inner.v)) ELSE inner

RECURSIVE process_assignment_value_folded(_)
\* Mutant of process_assignment_value: a rejected operator on two numbers is
\* folded into a constant instead of being rejected.
process_assignment_value_folded(value) ==
    CASE value.kind = "PolynomialReference" ->
            IF value.namespace = None /\ value.index = None /\ ~value.next
            THEN Ok(<< <<1 % FieldModulus, Register(value.name)>> >>)
            ELSE Panic("assertion failed: reference")
      [] value.kind = "Number" -> Ok(<< <<value.value, Constant>> >>)
      [] value.kind = "FreeInput" ->
            Ok(<< <<1 % FieldModulus, FreeInputComponent(value.expr)>> >>)
      [] value.kind = "BinaryOperation" ->
            IF value.op \in {"Div", "Mod", "BinaryAnd", "BinaryXor", "BinaryOr",
                             "ShiftLeft", "ShiftRight"}
            THEN IF value.left.kind = "Number" /\ value.right.kind = "Number"
                    /\ value.right.value # 0
                 THEN Ok(<< <<value.left.value \div value.right.value, Constant>> >>)
                 ELSE Panic("Invalid operation in expression")
            ELSE BinaryValue(value.op, process_assignment_value_folded(value.left),
                             process_assignment_value_folded(value.right))
      [] value.kind = "UnaryOperation" ->
            IF value.op # "Minus" THEN Panic("assertion failed: op == UnaryOperator::Minus")
            ELSE UnaryValue(process_assignment_value_folded(value.expr))
      [] OTHER -> Panic("explicit panic")

RECURSIVE process_assignment_value(_)
\* The affine expression (coefficient, component)* of a right-hand side.
process_assignment_value(value) ==
    CASE value.kind = "PolynomialReference" ->
            IF value.namespace = None /\ value.index = None /\ ~value.next
            THEN Ok(<< <<1 % FieldModulus, Register(value.name)>> >>)
            ELSE Panic("assertion failed: reference")
      [] value.kind = "Number" -> Ok(<< <<value.value, Constant>> >>)
      [] value.kind = "FreeInput" ->
            Ok(<< <<1 % FieldModulus, FreeInputComponent(value.expr)>> >>)
      [] value.kind = "BinaryOperation" ->
            IF value.op \in {"Div", "Mod", "BinaryAnd", "BinaryXor", "BinaryOr",
                             "ShiftLeft", "ShiftRight"}
            THEN Panic("Invalid operation in expression")
            ELSE BinaryValue(value.op, process_assignment_value(value.left),
                             process_assignment_value(value.right))
      [] value.kind = "UnaryOperation" ->
            IF value.op # "Minus" THEN Panic("assertion failed: op == UnaryOperator::Minus")
            ELSE UnaryValue(process_assignment_value(value.expr))
      [] OTHER -> Panic("explicit panic")

\* The CodeLine handle_assignment returns for the reduced value v.
AssignmentCodeLine(write_regs, assign_reg, v) ==
    IF ~v.ok THEN v
    ELSE Ok([DefaultCodeLine EXCEPT
               !.write_regs = assign_reg :> write_regs,
               !.value = assign_reg :> v.v])

handle_assignment(self, write_regs, assign_reg, value) ==
    IF Len(write_regs) > 1 THEN Panic("assertion failed: write_regs.len() <= 1")
    ELSE IF assign_reg = None THEN Panic("Implicit assign register not yet supported.")
    ELSE AssignmentCodeLine(write_regs, assign_reg[1], process_assignment_value(value))

\* Mutant of ReadLiteralArg: an unsigned literal is not range-checked.
ReadLiteralArgUnchecked(input, a) ==
    CASE input.lit = Label ->
            IF a.kind = "PolynomialReference" THEN Ok(LabelRef(a.name))
            ELSE Panic("explicit panic")
      [] input.lit = UnsignedConstant ->
            IF a.kind = "Number" THEN Ok(NumberArg(a.value))
            ELSE Panic("explicit panic")
      [] input.lit = SignedConstant ->
            IF a.kind = "Number" THEN Ok(NumberArg(a.value))
            ELSE IF a.kind = "UnaryOperation" /\ a.op = "Minus"
            THEN IF a.expr.kind = "Number" THEN Ok(NumberArg(FNeg(a.expr.value)))
                 ELSE Panic("explicit panic")
            ELSE Panic("explicit panic")

\* The InstructionLiteralArg read from the argument a of a literal input.
ReadLiteralArg(input, a) ==
    CASE input.lit = Label ->
            IF a.kind = "PolynomialReference" THEN Ok(LabelRef(a.name))
            ELSE Panic("explicit panic")
      [] input.lit = UnsignedConstant ->
            IF a.kind = "Number"
            THEN IF is_in_lower_half(a.value) THEN Ok(NumberArg(a.value))
                 ELSE Panic("Number passed to unsigned parameter is negative or too large")
            ELSE Panic("explicit panic")
      [] input.lit = SignedConstant ->
            IF a.kind = "Number" THEN Ok(NumberArg(a.value))
            ELSE IF a.kind = "UnaryOperation" /\ a.op = "Minus"
            THEN IF a.expr.kind = "Number" THEN Ok(NumberArg(FNeg(a.expr.value)))
                 ELSE Panic("explicit panic")
            ELSE Panic("explicit panic")

\* The arm Input::Register(reg) of the fold, on the reduced argument v.
InsertValue(acc, reg, v) ==
    IF ~v.ok THEN v
    ELSE Ok([acc.v EXCEPT !.value = MapExtend(@, reg :> v.v)])

\* The arms Input::Literal of the fold, on the literal argument l read.
PushLiteralArg(acc, l) ==
    IF ~l.ok THEN l
    ELSE Ok([acc.v EXCEPT !.literal_args = Append(@, l.v)])

RECURSIVE ReadInputs(_, _, _)
\* The fold of handle_instruction over the inputs zipped with the arguments:
\* acc.v is [value, literal_args].
ReadInputs(inputs, args, acc) ==
    IF ~acc.ok \/ inputs = <<>> \/ args = <<>> THEN acc
    ELSE
      LET input == Head(inputs)
          a == Head(args)
          next ==
            IF input.kind = "Register"
            THEN IF input.name \in DOMAIN acc.v.value
                 THEN Panic("assertion failed: !value.contains_key(reg)")
                 ELSE InsertValue(acc, input.name, process_assignment_value(a))
            ELSE PushLiteralArg(acc, ReadLiteralArg(input, a))
      IN ReadInputs(Tail(inputs), Tail(args), next)

RECURSIVE ReadOutputs(_, _, _)
\* The map of handle_instruction over the outputs zipped with the remaining
\* arguments, collected into a BTreeMap.
ReadOutputs(outputs, args, acc) ==
    IF ~acc.ok \/ outputs = <<>> \/ args = <<>> THEN acc
    ELSE
      LET a == Head(args)
          next ==
            IF a.kind = "PolynomialReference"
            THEN IF ~a.next /\ a.index = None
                 THEN Ok(MapExtend(acc.v, Head(outputs) :> <<a.name>>))
                 ELSE Panic("assertion failed: reference")
            ELSE Panic("Expected direct register to assign to in instruction call.")
      IN ReadOutputs(Tail(outputs), Tail(args), next)

\* The CodeLine handle_instruction returns for the inputs and outputs read.
InstructionCodeLine(instr, instr_name, ins, outs) ==
    IF ~ins.ok THEN ins
    ELSE IF ~outs.ok THEN outs
    ELSE IF Cardinality(DOMAIN outs.v) # Len(instr.outputs)
    THEN Panic("assertion failed: write_regs.len() == outputs.len()")
    ELSE Ok([DefaultCodeLine EXCEPT
               !.write_regs = outs.v,
               !.instructions = << <<instr_name, ins.v.literal_args>> >>,
               !.value = ins.v.value])

\* Mutant of handle_instruction: the number of arguments is not compared
\* with the number of parameters.
handle_instruction_unchecked(self, instr_name, args) ==
    IF instr_name \notin DOMAIN self.instructions THEN Panic("Instruction not found")
    ELSE
      LET instr == self.instructions[instr_name]
      IN InstructionCodeLine(instr, instr_name,
                  ReadInputs(instr.inputs, args,
                             Ok([value |-> EmptyMap, literal_args |-> <<>>])),
                  ReadOutputs(instr.outputs,
                              SubSeq(args, Len(instr.inputs) + 1, Len(args)),
                              Ok(EmptyMap)))

handle_instruction(self, instr_name, args) ==
    IF instr_name \notin DOMAIN self.instructions THEN Panic("Instruction not found")
    ELSE
      LET instr == self.instructions[instr_name]
      IN IF Len(instr.inputs) + Len(instr.outputs) # Len(args)
         THEN Panic("assertion failed: inputs.len() + outputs.len() == args.len()")
         ELSE InstructionCodeLine(instr, instr_name,
                  ReadInputs(instr.inputs, args,
                             Ok([value |-> EmptyMap, literal_args |-> <<>>])),
                  ReadOutputs(instr.outputs,
                              SubSeq(args, Len(instr.inputs) + 1, Len(args)),
                              Ok(EmptyMap)))

\* Mutant of handle_functional_instruction: the declared output is not
\* compared with the assignment register of the caller.
handle_functional_instruction_any_output(self, write_regs, assign_reg, instr_name, args) ==
    IF Len(write_regs) # 1 THEN Panic("assertion failed: write_regs.len() == 1")
    ELSE IF instr_name \notin DOMAIN self.instructions THEN Panic("Intruction not found")
    ELSE
      LET instr == self.instructions[instr_name]
      IN IF Len(instr.outputs) # 1 THEN Panic("assertion failed: outputs.len() == 1")
         ELSE handle_instruction(self, instr_name,
                                 Append(args, direct_reference(write_regs[1])))

handle_functional_instruction(self, write_regs, assign_reg, instr_name, args) ==
    IF Len(write_regs) # 1 THEN Panic("assertion failed: write_regs.len() == 1")
    ELSE IF instr_name \notin DOMAIN self.instructions THEN Panic("Intruction not found")
    ELSE
      LET instr == self.instructions[instr_name]
      IN IF Len(instr.outputs) # 1 THEN Panic("assertion failed: outputs.len() == 1")
         ELSE IF instr.outputs[1] # assign_reg
         THEN Panic("The instruction uses another assignment register than the caller")
         ELSE handle_instruction(self, instr_name,
                                 Append(args, direct_reference(write_regs[1])))

handle_statement(self, statement) ==
    CASE statement.kind = "Assignment" ->
            IF statement.value.kind = "FunctionCall"
            THEN IF statement.assign_reg = None
                 THEN Panic("called Option::unwrap() on a None value")
                 ELSE handle_functional_instruction(self, statement.write_regs,
                          statement.assign_reg[1], statement.value.name,
                          statement.value.args)
            ELSE handle_assignment(self, statement.write_regs, statement.assign_reg,
                                   statement.value)
      [] statement.kind = "Instruction" ->
            handle_instruction(self, statement.instr, statement.args)
      [] statement.kind = "Label" ->
            Ok([DefaultCodeLine EXCEPT !.label = Some(statement.name)])

\* Mutant of MergeCodeLine: the label of a later statement is not rejected,
\* the merged line keeps the first label it meets.
MergeCodeLineAnyLabel(acc, e) ==
    IF ~e.ok THEN e
    ELSE IF e.v.label # None /\ acc.v.label # None
    THEN Panic("assertion failed: e.label.is_none()")
    ELSE Ok([acc.v EXCEPT
               !.write_regs = MapExtend(@, e.v.write_regs),
               !.value = MapExtend(@, e.v.value),
               !.instructions = @ \o e.v.instructions,
               !.label = IF @ # None THEN @ ELSE e.v.label])

\* The closure of the reduce of handle_batch: acc merged with the code line
\* e of the next statement.
MergeCodeLine(acc, e) ==
    IF ~e.ok THEN e
    ELSE IF e.v.label # None THEN Panic("assertion failed: e.label.is_none()")
    ELSE Ok([acc.v EXCEPT
               !.write_regs = MapExtend(@, e.v.write_regs),
               !.value = MapExtend(@, e.v.value),
               !.instructions = @ \o e.v.instructions])

RECURSIVE ReduceBatch(_, _, _)
\* The reduce of handle_batch: acc merged with the code line of each further
\* statement, in order.
ReduceBatch(self, acc, statements) ==
    IF ~acc.ok \/ statements = <<>> THEN acc
    ELSE
      ReduceBatch(self, MergeCodeLine(acc, handle_statement(self, Head(statements))),
                  Tail(statements))

\* self.code_lines.extend(code_lines) for the merged code line.
ExtendCodeLines(self, line) ==
    IF ~line.ok THEN line
    ELSE Ok([self EXCEPT !.code_lines = Append(@, line.v)])

\* handle_batch: the converter with the merged code line appended, or a panic.
handle_batch(self, batch) ==
    IF batch = <<>> THEN Ok(self)
    ELSE ExtendCodeLines(self,
             ReduceBatch(self, handle_statement(self, Head(batch)), Tail(batch)))


(***************************************************************************)
(* Converter: the end of convert                                           *)
(***************************************************************************)

create_constraints_for_assignment_reg(self, register) ==
    LET assign_const == register \o <<"const">>
        read_free == register \o <<"read_free">>
        free_value == register \o <<"free_value">>
        regs == regular_registers(self)
        read_coefficients == [i \in DOMAIN regs |-> <<"read">> \o register \o regs[i]]
        self1 == create_witness_fixed_pairs(self,
                     <<assign_const, read_free>> \o read_coefficients)
        assign_constraint ==
            ReduceAdd([i \in DOMAIN regs |->
                          build_mul(direct_reference(read_coefficients[i]),
                                    direct_reference(regs[i]))]
                      \o << direct_reference(assign_const),
                            build_mul(direct_reference(read_free),
                                      direct_reference(free_value)) >>)
    IN [self1 EXCEPT !.pil = Append(@, PolynomialIdentity(
                                build_sub(direct_reference(register), assign_constraint)))]

RECURSIVE create_constraints_for_assignment_regs(_, _)
\* create_constraints_for_assignment_reg for each register, in order.
create_constraints_for_assignment_regs(self, regs) ==
    IF regs = <<>> THEN self
    ELSE create_constraints_for_assignment_regs(
             create_constraints_for_assignment_reg(self, Head(regs)), Tail(regs))

\* UpdateIdentities without the factor of the program counter.
UpdateIdentitiesUnforced(self) ==
    LET names == SelectSeq(SortNames(DOMAIN self.registers),
                           LAMBDA n : IsSome(update_expression(self.registers[n])))
    IN [i \in DOMAIN names |->
          PolynomialIdentity(build_sub(next_reference(names[i]),
                                       update_expression(self.registers[names[i]])[1]))]

\* The identities reg' = update of convert, one for each register that has
\* an update expression, the program counter's forced to zero after the
\* first row.
UpdateIdentities(self) ==
    LET names == SelectSeq(SortNames(DOMAIN self.registers),
                           LAMBDA n : IsSome(update_expression(self.registers[n])))
    IN [i \in DOMAIN names |->
          LET update == update_expression(self.registers[names[i]])[1]
          IN PolynomialIdentity(build_sub(next_reference(names[i]),
                IF Some(names[i]) = self.pc_name
                THEN build_mul(build_sub(build_number(1),
                                         next_reference(<<"first_step">>)), update)
                ELSE update))]

RECURSIVE LabelPositionsFrom(_, _, _)
\* The fold of compute_label_positions from line i on (1-based), r the map
\* built so far (label -> zero-based row).
LabelPositionsFrom(code_lines, i, r) ==
    IF ~r.ok \/ i > Len(code_lines) THEN r
    ELSE LET line == code_lines[i]
         IN IF line.label = None THEN LabelPositionsFrom(code_lines, i + 1, r)
            ELSE IF line.label[1] \in DOMAIN r.v THEN Panic("Duplicate label")
            ELSE LabelPositionsFrom(code_lines, i + 1,
                                    Ok(MapExtend(r.v, line.label[1] :> (i - 1))))

\* Mutant of compute_label_positions: the labels are numbered, not the rows.
compute_label_positions_counted(self) ==
    LET r == LabelPositionsFrom(self.code_lines, 1, Ok(EmptyMap))
        labelled == SelectSeq([i \in DOMAIN self.code_lines |-> i],
                              LAMBDA i : self.code_lines[i].label # None)
    IN IF ~r.ok THEN r
       ELSE Ok([l \in DOMAIN r.v |->
                  (CHOOSE k \in DOMAIN labelled :
                      self.code_lines[labelled[k]].label[1] = l) - 1])

\* Mutant of compute_label_positions: a repeated label is not rejected, its
\* last row is kept.
compute_label_positions_last(self) ==
    LET labelled == {i \in DOMAIN self.code_lines : self.code_lines[i].label # None}
    IN Ok([l \in {self.code_lines[i].label[1] : i \in labelled} |->
             (CHOOSE i \in labelled :
                 /\ self.code_lines[i].label[1] = l
                 /\ \A j \in labelled : self.code_lines[j].label[1] = l => j <= i) - 1])

compute_label_positions(self) == LabelPositionsFrom(self.code_lines, 1, Ok(EmptyMap))

\* One store into a program constant: column[i] = v ("set") or
\* column[i] += v ("add"); v is a field element, or the label whose
\* position is stored; arm is the free-value query arm pushed with it.
Store(column, mode, v) ==
    [column |-> column, mode |-> mode, v |-> Some(v), label |-> None, arm |-> None]

StoreLabel(column, name) ==
    [column |-> column, mode |-> "set", v |-> None, label |-> Some(name), arm |-> None]

StoreFree(column, v, assign_reg, expr) ==
    [column |-> column, mode |-> "add", v |-> Some(v), label |-> None,
     arm |-> Some(<<assign_reg, expr>>)]

\* The stores of the loop over line.write_regs.
WriteStores(line) ==
    LET regs == SortNames(DOMAIN line.write_regs)
    IN Flatten([k \in DOMAIN regs |->
          [j \in DOMAIN line.write_regs[regs[k]] |->
              Store(<<"p", "reg_write">> \o regs[k] \o line.write_regs[regs[k]][j],
                    "set", 1 % FieldModulus)]])

\* Mutant of ValueStores: the coefficients of the registers and of the
\* constant overwrite the cell instead of being added to it.
ValueStoresOverwrite(line) ==
    LET regs == SortNames(DOMAIN line.value)
    IN Flatten([k \in DOMAIN regs |->
          [j \in DOMAIN line.value[regs[k]] |->
              LET coeff == line.value[regs[k]][j][1]
                  item == line.value[regs[k]][j][2]
              IN CASE item.kind = "Register" ->
                        Store(<<"p", "read">> \o regs[k] \o item.arg, "set", coeff)
                   [] item.kind = "Constant" ->
                        Store(<<"p">> \o regs[k] \o <<"const">>, "set", coeff)
                   [] item.kind = "FreeInput" ->
                        StoreFree(<<"p">> \o regs[k] \o <<"read_free">>, coeff,
                                  regs[k], item.arg)]])

\* The stores of the loop over line.value.
ValueStores(line) ==
    LET regs == SortNames(DOMAIN line.value)
    IN Flatten([k \in DOMAIN regs |->
          [j \in DOMAIN line.value[regs[k]] |->
              LET coeff == line.value[regs[k]][j][1]
                  item == line.value[regs[k]][j][2]
              IN CASE item.kind = "Register" ->
                        Store(<<"p", "read">> \o regs[k] \o item.arg, "add", coeff)
                   [] item.kind = "Constant" ->
                        Store(<<"p">> \o regs[k] \o <<"const">>, "add", coeff)
                   [] item.kind = "FreeInput" ->
                        StoreFree(<<"p">> \o regs[k] \o <<"read_free">>, coeff,
                                  regs[k], item.arg)]])

\* Mutant of InstructionStores: the instruction flag is not stored.
InstructionStoresNoFlag(self, line) ==
    Flatten([k \in DOMAIN line.instructions |->
        LET instr == line.instructions[k][1]
            literal_args == line.instructions[k][2]
            params == literal_arg_names(self.instructions[instr])
            n == IF Len(literal_args) < Len(params) THEN Len(literal_args)
                 ELSE Len(params)
        IN [j \in 1..n |->
              LET column == <<"p", "instr">> \o instr \o <<"param">> \o params[j]
              IN IF literal_args[j].kind = "LabelRef"
                 THEN StoreLabel(column, literal_args[j].arg)
                 ELSE Store(column, "set", literal_args[j].arg)]])

\* Mutant of InstructionStores: the read_free flag of a written assignment
\* register is left at its accumulated value.
InstructionStoresAccumulated(self, line) ==
    Flatten([k \in DOMAIN line.instructions |->
        LET instr == line.instructions[k][1]
            literal_args == line.instructions[k][2]
            params == literal_arg_names(self.instructions[instr])
            n == IF Len(literal_args) < Len(params) THEN Len(literal_args)
                 ELSE Len(params)
        IN << Store(<<"p", "instr">> \o instr, "set", 1 % FieldModulus) >>
           \o [j \in 1..n |->
                 LET column == <<"p", "instr">> \o instr \o <<"param">> \o params[j]
                 IN IF literal_args[j].kind = "LabelRef"
                    THEN StoreLabel(column, literal_args[j].arg)
                    ELSE Store(column, "set", literal_args[j].arg)]])

\* The stores of the loop over line.instructions.
InstructionStores(self, line) ==
    Flatten([k \in DOMAIN line.instructions |->
        LET instr == line.instructions[k][1]
            literal_args == line.instructions[k][2]
            regs == SelectSeq(SortNames(DOMAIN line.write_regs),
                              LAMBDA r : line.write_regs[r] # <<>>)
            params == literal_arg_names(self.instructions[instr])
            n == IF Len(literal_args) < Len(params) THEN Len(literal_args)
                 ELSE Len(params)
        IN [j \in DOMAIN regs |->
              Store(<<"p">> \o regs[j] \o <<"read_free">>, "set", 1 % FieldModulus)]
           \o << Store(<<"p", "instr">> \o instr, "set", 1 % FieldModulus) >>
           \o [j \in 1..n |->
                 LET column == <<"p", "instr">> \o instr \o <<"param">> \o params[j]
                 IN IF literal_args[j].kind = "LabelRef"
                    THEN StoreLabel(column, literal_args[j].arg)
                    ELSE Store(column, "set", literal_args[j].arg)]])

\* Mutant of LabelPosition: a label that no line carries is row 0.
LabelPositionOrZero(label_positions, name) ==
    IF name \in DOMAIN label_positions THEN Ok(label_positions[name]) ELSE Ok(0)

\* label_positions[name]: the row of the label, or the panic of Index.
LabelPosition(label_positions, name) ==
    IF name \in DOMAIN label_positions THEN Ok(label_positions[name])
    ELSE Panic("label not found")

RECURSIVE ApplyStores(_, _, _, _)
\* The stores of row i (zero-based) applied in order to
\* st.v = [program_constants, free_value_query_arms].
ApplyStores(st, stores, i, label_positions) ==
    IF ~st.ok \/ stores = <<>> THEN st
    ELSE
      LET store == Head(stores)
          position == IF IsSome(store.label)
                      THEN LabelPosition(label_positions, store.label[1])
                      ELSE Ok(0)
          next ==
            IF ~position.ok THEN position
            ELSE IF store.column \notin DOMAIN st.v.program_constants
            THEN Panic("Register combination not found.")
            ELSE
              LET v == IF IsSome(store.label) THEN ToField(position.v)
                       ELSE store.v[1]
                  old == st.v.program_constants[store.column][i + 1]
                  new == IF store.mode = "add" THEN FAdd(old, v) ELSE v
              IN Ok([program_constants |->
                        [st.v.program_constants EXCEPT ![store.column][i + 1] = new],
                     free_value_query_arms |->
                        IF IsSome(store.arm)
                        THEN [st.v.free_value_query_arms EXCEPT
                                ![store.arm[1][1]] =
                                   Append(@, <<Some(build_number(i)), store.arm[1][2]>>)]
                        ELSE st.v.free_value_query_arms])
      IN ApplyStores(next, Tail(stores), i, label_positions)

RECURSIVE TranslateLines(_, _, _, _)
\* The loop of translate_code_lines from row i (zero-based) on.
TranslateLines(self, st, i, label_positions) ==
    IF ~st.ok \/ i >= Len(self.code_lines) THEN st
    ELSE LET line == self.code_lines[i + 1]
         IN TranslateLines(self,
                           ApplyStores(st, WriteStores(line) \o ValueStores(line)
                                             \o InstructionStores(self, line),
                                       i, label_positions),
                           i + 1, label_positions)

\* Mutant of ProgramConstantsInit: an empty program gets one explicit row.
ProgramConstantsOneRow(self) ==
    [n \in Range(self.program_constant_names) |->
        [i \in 1..(IF Len(self.code_lines) = 0 THEN 1 ELSE Len(self.code_lines)) |->
            0]]

\* program_constants: every program constant zero on every line.
ProgramConstantsInit(self) ==
    [n \in Range(self.program_constant_names) |->
        [i \in 1..Len(self.code_lines) |-> ToField(0)]]

\* Mutant of translate_code_lines: p_line counts the lines from one.
translate_code_lines_from_one(self) ==
    LET label_positions == compute_label_positions(self)
    IN IF ~label_positions.ok THEN label_positions
      ELSE
          LET st == TranslateLines(self,
                 Ok([program_constants |-> ProgramConstantsInit(self),
                     free_value_query_arms |->
                         [r \in Range(assignment_registers(self)) |-> <<>>]]),
                 0, label_positions.v)
              p_line == PolynomialConstantDefinition(<<"p", "line">>,
                           PadWithLast([i \in 1..Len(self.code_lines) |->
                                           build_number(i)]))
              assign_regs == assignment_registers(self)
              free_value_pil ==
                  [k \in DOMAIN assign_regs |->
                      witness_column(assign_regs[k] \o <<"free_value">>,
                          Some([kind |-> "Query", params |-> <<"i">>,
                                scrutinee |-> direct_reference(self.pc_name[1]),
                                arms |-> st.v.free_value_query_arms[assign_regs[k]]]))]
              names == SortNames(DOMAIN st.v.program_constants)
              constants ==
                  [k \in DOMAIN names |->
                      PolynomialConstantDefinition(names[k],
                          PadWithLast([i \in DOMAIN st.v.program_constants[names[k]] |->
                                          Number(st.v.program_constants[names[k]][i])]))]
          IN IF ~st.ok THEN st
             ELSE IF assign_regs # <<>> /\ self.pc_name = None
             THEN Panic("called Option::unwrap() on a None value")
             ELSE Ok([self EXCEPT
                        !.pil = (@ \o <<p_line>>) \o free_value_pil \o constants])

\* Translates the code lines to fixed columns and fills the query hints
\* for the free inputs: the converter with the statements pushed, or a panic.
translate_code_lines(self) ==
    LET label_positions == compute_label_positions(self)
    IN IF ~label_positions.ok THEN label_positions
      ELSE
          LET st == TranslateLines(self,
                 Ok([program_constants |-> ProgramConstantsInit(self),
                     free_value_query_arms |->
                         [r \in Range(assignment_registers(self)) |-> <<>>]]),
                 0, label_positions.v)
              p_line == PolynomialConstantDefinition(<<"p", "line">>,
                           PadWithLast([i \in 1..Len(self.code_lines) |->
                                           build_number(i - 1)]))
              assign_regs == assignment_registers(self)
              free_value_pil ==
                  [k \in DOMAIN assign_regs |->
                      witness_column(assign_regs[k] \o <<"free_value">>,
                          Some([kind |-> "Query", params |-> <<"i">>,
                                scrutinee |-> direct_reference(self.pc_name[1]),
                                arms |-> st.v.free_value_query_arms[assign_regs[k]]]))]
              names == SortNames(DOMAIN st.v.program_constants)
              constants ==
                  [k \in DOMAIN names |->
                      PolynomialConstantDefinition(names[k],
                          PadWithLast([i \in DOMAIN st.v.program_constants[names[k]] |->
                                          Number(st.v.program_constants[names[k]][i])]))]
          IN IF ~st.ok THEN st
             ELSE IF assign_regs # <<>> /\ self.pc_name = None
             THEN Panic("called Option::unwrap() on a None value")
             ELSE Ok([self EXCEPT
                        !.pil = (@ \o <<p_line>>) \o free_value_pil \o constants])

\* The lookup that connects the execution trace to the program.
LineLookup(self) ==
    [kind |-> "PlookupIdentity",
     left |-> [selector |-> None,
               expressions |-> [i \in DOMAIN self.line_lookup |->
                                   direct_reference(self.line_lookup[i][1])]],
     right |-> [selector |-> None,
                expressions |-> [i \in DOMAIN self.line_lookup |->
                                    direct_reference(self.line_lookup[i][2])]]]

\* convert, after the loop over the batches.
ConvertTail(self) ==
    LET self1 == create_constraints_for_assignment_regs(self, assignment_registers(self))
        self2 == [self1 EXCEPT !.pil = @ \o UpdateIdentities(self1)]
        self3 == translate_code_lines(self2)
    IN IF ~self3.ok THEN self3
       ELSE Ok([self3.v EXCEPT !.pil = Append(@, LineLookup(self3.v))])


(***************************************************************************)
(* Converter: convert as a state machine                                   *)
(***************************************************************************)

\* Largest number of batches of a program.
MaxBatches == 3

\* Declarations (ASMStatement::RegisterDeclaration / InstructionDeclaration).
RegisterDeclaration(name, flags) ==
    [kind |-> "RegisterDeclaration", name |-> name, flags |-> flags]

InstructionDeclaration(name, inputs, outputs, body) ==
    [kind |-> "InstructionDeclaration", name |-> name,
     params |-> [inputs |-> inputs, outputs |-> outputs], body |-> body]

Param(name, ty) == [name |-> name, ty |-> ty]

\* The body element  reg' = rhs  (parsed as the expression reg' - rhs).
UpdateElement(reg, rhs) ==
    [kind |-> "Expression", expr |-> build_sub(next_reference(reg), rhs)]

\* Statements of a batch.
LabelStatement(name) == [kind |-> "Label", name |-> name]

InstructionStatement(instr, args) == [kind |-> "Instruction", instr |-> instr, args |-> args]

AssignmentStatement(write_regs, assign_reg, value) ==
    [kind |-> "Assignment", write_regs |-> write_regs, assign_reg |-> assign_reg,
     value |-> value]

\* The machine of the test compile_literal_number_args, with a jump:
\*   reg pc[@pc]; reg A;
\*   instr jmp l: label { pc' = l }
\*   instr inc amount: unsigned { A' = A + amount }
\*   instr adj amount: signed, t: label { A' = A + amount, pc' = t }
ProgDeclarations ==
    << RegisterDeclaration(<<"pc">>, IsPC),
       RegisterDeclaration(<<"A">>, None),
       InstructionDeclaration(<<"jmp">>, <<Param(<<"l">>, Some("label"))>>, None,
           << UpdateElement(<<"pc">>, direct_reference(<<"l">>)) >>),
       InstructionDeclaration(<<"inc">>, <<Param(<<"amount">>, Some("unsigned"))>>, None,
           << UpdateElement(<<"A">>, build_add(direct_reference(<<"A">>),
                                                direct_reference(<<"amount">>))) >>),
       InstructionDeclaration(<<"adj">>,
           <<Param(<<"amount">>, Some("signed")), Param(<<"t">>, Some("label"))>>, None,
           << UpdateElement(<<"A">>, build_add(direct_reference(<<"A">>),
                                                direct_reference(<<"amount">>))),
              UpdateElement(<<"pc">>, direct_reference(<<"t">>)) >>) >>

\* The largest value of the lower half of the field.
LowerHalfMax == (FieldModulus - 1) \div 2

ProgLabels == { <<"l1">>, <<"l2">> }

\* The jumps of the programs, to either label.
ProgJumps ==
    { InstructionStatement(<<"jmp">>, <<direct_reference(l)>>) : l \in ProgLabels }

\* The instruction calls of the programs: the jumps, an unsigned literal, a
\* signed literal and its negation.
ProgCalls ==
    ProgJumps
    \cup { InstructionStatement(<<"inc">>, <<Number(LowerHalfMax)>>) }
    \cup { InstructionStatement(<<"adj">>, <<n, direct_reference(<<"l1">>)>>) :
              n \in {Number(2), build_unary_expr("Minus", Number(2))} }

\* The batches of the programs: a label, a call, or a label followed by a
\* jump.
ProgBatches ==
    { <<LabelStatement(l)>> : l \in ProgLabels }
    \cup { <<c>> : c \in ProgCalls }
    \cup { <<LabelStatement(l), c>> : l \in ProgLabels, c \in ProgJumps }

\* The batches of the programs of unsigned literals: inc n for every
\* number n of the field.
LitBatches ==
    { <<InstructionStatement(<<"inc">>, <<Number(n)>>)>> : n \in FieldElements }

ConvInit(decls) ==
    /\ converter = NewConverter
    /\ declarations = decls
    /\ handled = <<>>
    /\ conv_pc = "start"
    /\ conv_error = ""
    /\ conv_out = <<>>
    /\ LinkIdle
    /\ UpdIdle

\* The start of convert for an asm_kind other than StandAlone (no namespace
\* statement): the first_step column.
ConvertStart ==
    /\ conv_pc = "start"
    /\ converter' = [converter EXCEPT !.pil = Append(@,
           [kind |-> "PolynomialConstantDefinition", name |-> <<"first_step">>,
            array |-> [values |-> <<build_number(1)>>, repeated |-> <<Number(0)>>]])]
    /\ conv_pc' = "run"
    /\ UNCHANGED <<declarations, handled, conv_error, conv_out>>
    /\ UNCHANGED link_vars
    /\ UNCHANGED upd_vars

\* One iteration of the loop over the declarations.
HandleDeclaration ==
    /\ conv_pc = "run"
    /\ declarations # <<>>
    /\ LET s == Head(declarations)
       IN converter' =
            CASE s.kind = "RegisterDeclaration" ->
                    handle_register_declaration(converter, s.flags, s.name)
              [] s.kind = "InstructionDeclaration" ->
                    handle_instruction_def(converter, s.body, s.name, s.params)
              [] s.kind = "InlinePil" -> handle_inline_pil(converter, s.statements)
    /\ declarations' = Tail(declarations)
    /\ UNCHANGED <<handled, conv_pc, conv_error, conv_out>>
    /\ UNCHANGED link_vars
    /\ UNCHANGED upd_vars

\* One iteration of the loop over the batches, the batch drawn from Batches.
HandleBatch(Batches) ==
    /\ conv_pc = "run"
    /\ declarations = <<>>
    /\ Len(converter.code_lines) < MaxBatches
    /\ \E b \in Batches :
         \E r \in {handle_batch(converter, b)} :
            /\ handled' = Append(handled, b)
            /\ converter' = IF r.ok THEN r.v ELSE converter
            /\ conv_pc' = IF r.ok THEN "run" ELSE "panic"
            /\ conv_error' = IF r.ok THEN "" ELSE r.err
    /\ UNCHANGED <<declarations, conv_out>>
    /\ UNCHANGED link_vars
    /\ UNCHANGED upd_vars

\* The rest of convert once the batches are handled: the constraints of the
\* assignment registers, the register updates, the program constants and
\* the lookup; convert returns self.pil.
ConvertReturn ==
    /\ conv_pc = "run"
    /\ declarations = <<>>
    /\ \E r \in {ConvertTail(converter)} :
          /\ converter' = IF r.ok THEN [r.v EXCEPT !.pil = <<>>] ELSE converter
          /\ conv_out' = IF r.ok THEN r.v.pil ELSE <<>>
          /\ conv_pc' = IF r.ok THEN "done" ELSE "panic"
          /\ conv_error' = IF r.ok THEN "" ELSE r.err
    /\ UNCHANGED <<declarations, handled>>
    /\ UNCHANGED link_vars
    /\ UNCHANGED upd_vars

ProgInit == ConvInit(ProgDeclarations)

ProgNext ==
    \/ ConvertStart
    \/ HandleDeclaration
    \/ HandleBatch(ProgBatches)
    \/ ConvertReturn

\* convert on the programs over ProgBatches.
SpecProg == ProgInit /\ [][ProgNext]_vars

LitNext ==
    \/ ConvertStart
    \/ HandleDeclaration
    \/ HandleBatch(LitBatches)
    \/ ConvertReturn

\* convert on the programs over LitBatches.
SpecLit == ProgInit /\ [][LitNext]_vars

(***************************************************************************)
(* Converter: a machine with an assignment register                        *)
(***************************************************************************)

\* The machine
\*   reg pc[@pc]; reg X[<=]; reg A; reg B;
\*   instr wr X -> X { }
AsgDeclarations ==
    << RegisterDeclaration(<<"pc">>, IsPC),
       RegisterDeclaration(<<"X">>, IsAssignment),
       RegisterDeclaration(<<"A">>, None),
       RegisterDeclaration(<<"B">>, None),
       InstructionDeclaration(<<"wr">>, <<Param(<<"X">>, None)>>,
                              Some(<<Param(<<"X">>, None)>>), <<>>) >>

\* The statement  target <=X= value.
AssignX(target, value) == AssignmentStatement(<<target>>, Some(<<"X">>), value)

\* The operands of the right-hand sides: registers, numbers, a free input.
RefA == direct_reference(<<"A">>)

RefB == direct_reference(<<"B">>)

Query == FreeInput(direct_reference(<<"i">>))

\* The operators process_assignment_value rejects.
InvalidOperators ==
    {"Div", "Mod", "BinaryAnd", "BinaryXor", "BinaryOr", "ShiftLeft", "ShiftRight"}

\* Right-hand sides that reduce: sums with repeated components, products
\* with a constant on the left, on the right and on both sides, a negated
\* difference, and a free input whose query divides.
AsgReducible ==
    { build_add(RefA, RefA),
      build_add(Number(ToField(3)), Number(ToField(4))),
      build_sub(RefA, RefA),
      build_mul(Number(2), build_add(RefA, Number(3))),
      build_mul(build_add(RefB, Query), Number(3)),
      build_mul(Number(2), Number(3)),
      build_unary_expr("Minus", build_sub(RefB, Query)),
      FreeInput(build_binary_expr(direct_reference(<<"i">>), "Div", Number(2))) }

\* Products without a side that is one constant.
AsgProducts ==
    { build_mul(RefA, RefB),
      build_mul(RefA, RefA),
      build_mul(Query, RefA),
      build_mul(build_add(Number(2), Number(3)), RefA),
      build_mul(build_add(RefA, Number(1)), build_add(RefB, Number(2))) }

\* Right-hand sides with a rejected operator: on constants, on a register,
\* below a sum, below a product and a negation.
AsgInvalid ==
    UNION { { build_binary_expr(Number(4), op, Number(2)),
              build_binary_expr(RefA, op, Number(2)),
              build_add(Number(1), build_binary_expr(Number(4), op, Number(2))),
              build_mul(Number(2),
                        build_unary_expr("Minus", build_binary_expr(RefA, op, RefB))) } :
            op \in InvalidOperators }

\* The batches of the programs of assignments: one assignment A <=X= value.
AsgBatches ==
    { <<AssignX(<<"A">>, value)>> : value \in AsgReducible \cup AsgProducts \cup AsgInvalid }

AsgInit == ConvInit(AsgDeclarations)

AsgNext ==
    \/ ConvertStart
    \/ HandleDeclaration
    \/ HandleBatch(AsgBatches)
    \/ ConvertReturn

\* convert on the programs over AsgBatches.
SpecAsg == AsgInit /\ [][AsgNext]_vars

\* The calls of wr: the functional form  target <=X= wr(arg)  and the
\* statement form  wr args.
CallWr(target, arg) ==
    AssignmentStatement(<<target>>, Some(<<"X">>),
                        [kind |-> "FunctionCall", name |-> <<"wr">>, args |-> <<arg>>])

\* Batches that merge: two assignments through X, a label alone and before
\* an assignment, calls of wr with both arguments, a call of wr with an
\* assignment.
MergeAccepted ==
    { <<AssignX(<<"A">>, Number(1)), AssignX(<<"B">>, build_add(RefB, Number(2)))>>,
      <<LabelStatement(<<"l1">>)>>,
      <<LabelStatement(<<"l2">>), AssignX(<<"A">>, Number(1))>>,
      <<CallWr(<<"A">>, Query)>>,
      <<CallWr(<<"A">>, build_unary_expr("Minus", Query))>>,
      <<CallWr(<<"B">>, build_add(Query, Query))>>,
      <<InstructionStatement(<<"wr">>, <<RefA, RefB>>)>>,
      <<CallWr(<<"A">>, Query), AssignX(<<"B">>, Number(3))>> }

\* Batches with a label after the first statement.
MergeLabelled ==
    { <<AssignX(<<"A">>, Number(1)), LabelStatement(<<"l1">>)>>,
      <<LabelStatement(<<"l1">>), LabelStatement(<<"l2">>)>>,
      <<LabelStatement(<<"l1">>), AssignX(<<"A">>, Number(1)), LabelStatement(<<"l2">>)>> }

\* Calls of wr with fewer and with more arguments than parameters.
MergeArity ==
    { <<InstructionStatement(<<"wr">>, <<>>)>>,
      <<InstructionStatement(<<"wr">>, <<RefA>>)>>,
      <<InstructionStatement(<<"wr">>, <<Query, RefA, RefB>>)>>,
      <<AssignmentStatement(<<"A">>, Some(<<"X">>),
            [kind |-> "FunctionCall", name |-> <<"wr">>, args |-> <<>>])>>,
      <<AssignmentStatement(<<"A">>, Some(<<"X">>),
            [kind |-> "FunctionCall", name |-> <<"wr">>, args |-> <<Query, RefB>>])>> }

\* The batches of the programs of merged statements and calls.
MergeBatches == MergeAccepted \cup MergeLabelled \cup MergeArity

MergeNext ==
    \/ ConvertStart
    \/ HandleDeclaration
    \/ HandleBatch(MergeBatches)
    \/ ConvertReturn

\* convert on the programs over MergeBatches.
SpecMerge == AsgInit /\ [][MergeNext]_vars

(***************************************************************************)
(* Converter: a machine with two assignment registers                      *)
(***************************************************************************)

\* The machine
\*   reg pc[@pc]; reg X[<=]; reg Y[<=]; reg A;
\*   instr wr X -> X { }   instr wy X -> Y { }
\*   instr nop { }         instr w2 X -> X, Y { }
FunDeclarations ==
    << RegisterDeclaration(<<"pc">>, IsPC),
       RegisterDeclaration(<<"X">>, IsAssignment),
       RegisterDeclaration(<<"Y">>, IsAssignment),
       RegisterDeclaration(<<"A">>, None),
       InstructionDeclaration(<<"wr">>, <<Param(<<"X">>, None)>>,
                              Some(<<Param(<<"X">>, None)>>), <<>>),
       InstructionDeclaration(<<"wy">>, <<Param(<<"X">>, None)>>,
                              Some(<<Param(<<"Y">>, None)>>), <<>>),
       InstructionDeclaration(<<"nop">>, <<>>, None, <<>>),
       InstructionDeclaration(<<"w2">>, <<Param(<<"X">>, None)>>,
                              Some(<<Param(<<"X">>, None), Param(<<"Y">>, None)>>),
                              <<>>) >>

\* The functional call  target <=assign_reg= instr(args).
FunctionalCall(target, assign_reg, instr, args) ==
    AssignmentStatement(<<target>>, Some(assign_reg),
                        [kind |-> "FunctionCall", name |-> instr, args |-> args])

\* Batches that convert: functional calls through the declared output, the
\* plain calls with the target as last argument, an assignment of two free
\* inputs alone and in a batch with a call of nop.
FunAccepted ==
    { <<FunctionalCall(<<"A">>, <<"X">>, <<"wr">>, <<Query>>)>>,
      <<InstructionStatement(<<"wr">>, <<Query, RefA>>)>>,
      <<FunctionalCall(<<"A">>, <<"Y">>, <<"wy">>, <<RefA>>)>>,
      <<InstructionStatement(<<"wy">>, <<RefA, RefA>>)>>,
      <<InstructionStatement(<<"w2">>, <<RefA, RefA, RefA>>)>>,
      <<AssignX(<<"A">>, build_add(Query, Query))>>,
      <<InstructionStatement(<<"nop">>, <<>>), AssignX(<<"A">>, build_add(Query, Query))>> }

\* Functional calls of an instruction whose output is another assignment
\* register, of one without output and of one with two outputs.
FunRejected ==
    { <<FunctionalCall(<<"A">>, <<"X">>, <<"wy">>, <<RefA>>)>>,
      <<FunctionalCall(<<"A">>, <<"Y">>, <<"wr">>, <<Query>>)>>,
      <<FunctionalCall(<<"A">>, <<"X">>, <<"nop">>, <<>>)>>,
      <<FunctionalCall(<<"A">>, <<"X">>, <<"w2">>, <<RefA, RefA>>)>> }

FunBatches == FunAccepted \cup FunRejected

FunInit == ConvInit(FunDeclarations)

FunNext ==
    \/ ConvertStart
    \/ HandleDeclaration
    \/ HandleBatch(FunBatches)
    \/ ConvertReturn

\* convert on the programs over FunBatches.
SpecFun == FunInit /\ [][FunNext]_vars

(***************************************************************************)
(* Converter: convert on sequences of declarations                         *)
(***************************************************************************)

\* Largest number of declarations of a machine.
MaxDeclarations == 5

\* The declarations of the machines:
\*   reg pc[@pc];   reg X[<=];   reg Y[<=];   reg A;
\*   instr jmp l: label { pc' = l }
\*   instr inc X, amount: unsigned { A' = X + amount, A = amount }
DeclPool ==
    { RegisterDeclaration(<<"pc">>, IsPC),
      RegisterDeclaration(<<"X">>, IsAssignment),
      RegisterDeclaration(<<"Y">>, IsAssignment),
      RegisterDeclaration(<<"A">>, None),
      InstructionDeclaration(<<"jmp">>, <<Param(<<"l">>, Some("label"))>>, None,
          << UpdateElement(<<"pc">>, direct_reference(<<"l">>)) >>),
      InstructionDeclaration(<<"inc">>,
          <<Param(<<"X">>, None), Param(<<"amount">>, Some("unsigned"))>>, None,
          << UpdateElement(<<"A">>, build_add(direct_reference(<<"X">>),
                                               direct_reference(<<"amount">>))),
             [kind |-> "Expression",
              expr |-> build_sub(direct_reference(<<"A">>),
                                 direct_reference(<<"amount">>))] >>) }

\* The registers whose next value the body of a declaration sets.
UpdatedRegisters(decl) ==
    IF decl.kind # "InstructionDeclaration" THEN {}
    ELSE {extract_update(decl.body[j].expr).var[1] :
             j \in {i \in DOMAIN decl.body :
                       /\ decl.body[i].kind = "Expression"
                       /\ IsSome(extract_update(decl.body[i].expr).var)}}

\* The sequences of declarations convert accepts: no declaration twice, and
\* every register an instruction updates declared before the instruction
\* (handle_instruction_def unwraps the register).
DeclSequences ==
    {decls \in SeqsUpTo(DeclPool, MaxDeclarations) :
        /\ \A i, j \in DOMAIN decls : i # j => decls[i] # decls[j]
        /\ \A i \in DOMAIN decls : \A r \in UpdatedRegisters(decls[i]) :
              \E j \in 1..(i - 1) :
                 decls[j].kind = "RegisterDeclaration" /\ decls[j].name = r}

\* The batches of the programs of these machines:  A <=X= A  (a write of A
\* and a read of A through X) and  inc A, 1  (a read of A through X).
DeclBatches ==
    { <<AssignX(<<"A">>, RefA)>>,
      <<InstructionStatement(<<"inc">>, <<RefA, Number(1)>>)>> }

DeclInit == \E decls \in DeclSequences : ConvInit(decls)

DeclNext ==
    \/ ConvertStart
    \/ HandleDeclaration
    \/ HandleBatch(DeclBatches)
    \/ ConvertReturn

\* convert on the machines of DeclSequences.
SpecDecl == DeclInit /\ [][DeclNext]_vars

(***************************************************************************)
(* Register::update_expression as a state machine                          *)
(***************************************************************************)

\* Largest number of conditioned updates of a register.
MaxUpdates == 2

\* The conditions and the values of the conditioned updates, the defaults.
UpdFlags == { direct_reference(<<"instr", "inc">>), direct_reference(<<"instr", "jmp">>) }

UpdValues ==
    { direct_reference(<<"instr", "jmp", "param", "l">>),
      build_add(direct_reference(<<"A">>), build_number(1)) }

UpdDefaults ==
    { None, Some(direct_reference(<<"A">>)),
      Some(build_add(direct_reference(<<"instr", "jmp", "param", "l">>), build_number(1))) }

UpdInit ==
    /\ \E n \in 0..MaxUpdates :
         \E conditioned_updates \in [1..n -> UpdFlags \X UpdValues] :
            \E default_update \in UpdDefaults :
               upd_register = [conditioned_updates |-> conditioned_updates,
                               default_update |-> default_update,
                               is_assignment |-> FALSE]
    /\ upd_result = None
    /\ LinkIdle
    /\ ConvIdle

\* The call upd_register.update_expression().
UpdateExpression ==
    /\ upd_register # <<>>
    /\ upd_result = None
    /\ upd_result' = Some(update_expression(upd_register))
    /\ UNCHANGED upd_register
    /\ UNCHANGED link_vars
    /\ UNCHANGED conv_vars

UpdNext == UpdateExpression

\* update_expression on the registers of UpdInit.
SpecUpd == UpdInit /\ [][UpdNext]_vars

(***************************************************************************)
(* Claims about the linker (checked under SpecLink)                        *)
(***************************************************************************)

LinkDone == link_result # None

\* D: the main machine's explicit degree, 1024 if unset.
ClaimD ==
    LET d == graph.objects[graph.main.location].degree
    IN IF d = None THEN 1024 ELSE d[1]

\* The machines with an explicit degree different from D.
Mismatching ==
    {l \in Range(graph.keys) :
        /\ graph.objects[l].degree # None
        /\ graph.objects[l].degree[1] # ClaimD}

\* The number of statements of one machine's block in the output.
ClaimBlockLen(l) ==
    1 + Len(graph.objects[l].pil) + Len(graph.objects[l].links)
      + (IF l = <<"main">> /\ \E i \in DOMAIN graph.entry_points :
                                    graph.entry_points[i].name = "main"
         THEN 2 ELSE 0)

RECURSIVE ClaimBlockStart(_)
\* The number of statements before the block of the k-th machine.
ClaimBlockStart(k) ==
    IF k = 1 THEN 0
    ELSE ClaimBlockStart(k - 1) + ClaimBlockLen(graph.keys[k - 1])

\* The statement emitted for the i-th link of the k-th machine.
EmittedLink(k, i) ==
    link_pil[ClaimBlockStart(k) + 1 + Len(graph.objects[graph.keys[k]].pil) + i]

\* The (machine, link) index pairs whose statement has been emitted.
EmittedLinks ==
    {ki \in (1..link_pos) \X (1..MaxLinks) :
        ki[2] <= Len(graph.objects[graph.keys[ki[1]]].links)}

\* C1: link returns Err(list) if and only if at least one machine has an
\* explicit degree different from D; the list then holds exactly one message
\* "Machine <loc> should have degree D, found D'" for every such machine,
\* and no PIL file is returned.
C1_ErrIffMismatch ==
    LinkDone =>
        LET r == link_result[1]
        IN /\ (r.tag = "Err") <=> (Mismatching # {})
           /\ r.tag = "Err" =>
                /\ r.pil = <<>>
                /\ Len(r.errors) = Cardinality(Mismatching)
                /\ \A l \in Mismatching :
                      Cardinality({i \in DOMAIN r.errors :
                          r.errors[i] = <<"Machine", LocationToString(l),
                                          "should have degree", ClaimD, "found",
                                          graph.objects[l].degree[1]>>}) = 1

\* Witness of C1: link has returned Err for a graph with two mismatching machines.
C1_Witness ==
    /\ LinkDone
    /\ link_result[1].tag = "Err"
    /\ Cardinality(Mismatching) >= 2

\* C2: when no machine has an explicit degree different from D, link returns
\* Ok and the output holds exactly one namespace statement per machine, every
\* one declaring degree D, also for the machines whose own degree is unset.
C2_OkAllNamespacesD ==
    (LinkDone /\ Mismatching = {}) =>
        LET r == link_result[1]
            ns == {i \in DOMAIN r.pil : r.pil[i].kind = "Namespace"}
        IN /\ r.tag = "Ok"
           /\ Cardinality(ns) = Len(graph.keys)
           /\ \A l \in Range(graph.keys) :
                 Cardinality({i \in ns : r.pil[i].name = LocationToString(l)}) = 1
           /\ \A i \in ns : r.pil[i].degree = [kind |-> "Number", value |-> ClaimD]

\* Witness of C2: link has returned Ok for a graph of several machines whose
\* main degree is explicit and not the default, with a machine of unset degree.
C2_Witness ==
    /\ LinkDone
    /\ link_result[1].tag = "Ok"
    /\ Len(graph.keys) >= 2
    /\ graph.objects[<<"main">>].degree = <<8>>
    /\ \E l \in Range(graph.keys) : graph.objects[l].degree = None

\* C3: a Link with is_permutation = false is emitted as a lookup identity,
\* and the same Link with is_permutation = true as a permutation identity
\* with the same left and right selectors and tuples.
C3_PermutationEmitted ==
    \A ki \in EmittedLinks :
        LET link == graph.objects[graph.keys[ki[1]]].links[ki[2]]
            lookup_form == [link EXCEPT !.is_permutation = FALSE]
            st == EmittedLink(ki[1], ki[2])
        IN /\ st.kind = (IF link.is_permutation THEN "PermutationIdentity"
                                               ELSE "PlookupIdentity")
           /\ st.left = LinkLhs(lookup_form)
           /\ st.right = LinkRhs(lookup_form)

\* C4: for every outbound Link the emitted identity has, on the left, the
\* caller's link flag as selector and the tuple [callee operation-id literal,
\* caller inputs, caller outputs], none of them namespaced, and on the right
\* the callee's latch as selector and the tuple [callee operation-id column,
\* callee declared inputs, callee declared outputs], all namespaced to the
\* callee's location.
C4_LinkTuples ==
    \A ki \in EmittedLinks :
        LET link == graph.objects[graph.keys[ki[1]]].links[ki[2]]
            st == EmittedLink(ki[1], ki[2])
            args == link.from.inputs \o (IF link.from.outputs = None THEN <<>>
                                         ELSE link.from.outputs[1])
            params == link.to.function.inputs
                      \o (IF link.to.function.outputs = None THEN <<>>
                          ELSE link.to.function.outputs[1])
            callee == <<LocationToString(link.to.machine.location)>>
        IN /\ st.left.selector[1].name = link.from.link_flag
           /\ st.left.selector[1].namespace = None
           /\ Len(st.left.expressions) = 1 + Len(args)
           /\ st.left.expressions[1] = [kind |-> "Number", value |-> link.to.function.id]
           /\ \A i \in DOMAIN args :
                 /\ st.left.expressions[1 + i].name = args[i]
                 /\ st.left.expressions[1 + i].namespace = None
           /\ st.right.selector[1].name = link.to.machine.latch
           /\ st.right.selector[1].namespace = callee
           /\ Len(st.right.expressions) = 1 + Len(params)
           /\ st.right.expressions[1].name = link.to.machine.function_id
           /\ st.right.expressions[1].namespace = callee
           /\ \A i \in DOMAIN params :
                 /\ st.right.expressions[1 + i].name = params[i]
                 /\ st.right.expressions[1 + i].namespace = callee

\* The positions of the output that define the column _linker_first_step.
ClaimFirstSteps(pil) ==
    {i \in DOMAIN pil : /\ pil[i].kind = "PolynomialConstantDefinition"
                        /\ pil[i].name = "_linker_first_step"}

\* The positions of the output that hold an identity over _linker_first_step.
ClaimForcings(pil) ==
    {i \in DOMAIN pil : /\ pil[i].kind = "PolynomialIdentity"
                        /\ "first_step" \in DOMAIN pil[i]}

\* The name of the namespace the statement at position i belongs to.
ClaimNamespaceOf(pil, i) ==
    pil[CHOOSE k \in 1..i : /\ pil[k].kind = "Namespace"
                            /\ \A j \in (k + 1)..i : pil[j].kind # "Namespace"].name

ConvDone == conv_pc = "done"

\* N: the number of CodeLines.
ClaimRows == Len(converter.code_lines)

\* The definition of the fixed column of this name in the output.
ClaimColumn(name) ==
    conv_out[CHOOSE k \in DOMAIN conv_out :
                /\ conv_out[k].kind = "PolynomialConstantDefinition"
                /\ conv_out[k].name = name]

\* The value of the column at row i (zero-based).
ClaimCell(name, i) == ClaimColumn(name).array.values[i + 1].value

\* The instructions the machine declares, and the declaration of one.
ClaimInstructions ==
    {ProgDeclarations[k].name : k \in {j \in DOMAIN ProgDeclarations :
                                   ProgDeclarations[j].kind = "InstructionDeclaration"}}

ClaimInputs(I) ==
    ProgDeclarations[CHOOSE k \in DOMAIN ProgDeclarations :
        /\ ProgDeclarations[k].kind = "InstructionDeclaration"
        /\ ProgDeclarations[k].name = I].params.inputs

\* The calls of instruction I in the batch of row i (zero-based).
ClaimCalls(I, i) ==
    {c \in Range(handled[i + 1]) : c.kind = "Instruction" /\ c.instr = I}

\* The rows (zero-based) whose batch holds the label L.
ClaimLabelRows(L) ==
    {r \in 0..(Len(handled) - 1) :
        \E c \in Range(handled[r + 1]) : c.kind = "Label" /\ c.name = L}

\* The labels passed by the calls of the program.
ClaimLabelsPassed ==
    UNION {{c.args[j].name : j \in {k \in DOMAIN ClaimInputs(c.instr) :
                                       ClaimInputs(c.instr)[k].ty = Some("label")}} :
           c \in {d \in UNION {Range(handled[i]) : i \in DOMAIN handled} :
                     d.kind = "Instruction"}}

\* C5: for every instruction call on row i that passes label L for a Label
\* parameter, the value at row i of the parameter's fixed column
\* p_instr_<name>_param_<arg> is the zero-based index of the CodeLine that
\* carries L, also when L is defined on a later row than the call and when
\* the label shares its row with an instruction of the same batch.
C5_LabelIsRowIndex ==
    ConvDone =>
        /\ ClaimRows = Len(handled)
        /\ \A i \in 0..(ClaimRows - 1) : \A I \in ClaimInstructions :
              \A c \in ClaimCalls(I, i) : \A j \in DOMAIN ClaimInputs(I) :
                 ClaimInputs(I)[j].ty = Some("label") =>
                    /\ Cardinality(ClaimLabelRows(c.args[j].name)) = 1
                    /\ converter.code_lines[
                          (CHOOSE r \in ClaimLabelRows(c.args[j].name) : TRUE) + 1].label
                          = Some(c.args[j].name)
                    /\ {ClaimCell(<<"p", "instr">> \o I \o <<"param">>
                                      \o ClaimInputs(I)[j].name, i)}
                          = ClaimLabelRows(c.args[j].name)

\* Witness of C5: convert has returned for a program whose first row jumps
\* to a label of a later row, where the label shares the row with a jump
\* back to it.
C5_Witness ==
    /\ ConvDone
    /\ Len(handled) >= 3
    /\ handled[1] = <<InstructionStatement(<<"jmp">>, <<direct_reference(<<"l2">>)>>)>>
    /\ handled[3] = <<LabelStatement(<<"l2">>),
                      InstructionStatement(<<"jmp">>, <<direct_reference(<<"l2">>)>>)>>

\* C6: a program in which some instruction call passes, for a Label
\* parameter, a symbol that is the label of no CodeLine fails and produces
\* no output.
C6_UndefinedLabelFails ==
    /\ ConvDone => \A L \in ClaimLabelsPassed : ClaimLabelRows(L) # {}
    /\ conv_pc = "panic" => conv_out = <<>>
    /\ conv_out # <<>> => ConvDone

\* Witness of C6: convert has panicked at the lookup of a label that a call
\* passes and no row carries.
C6_Witness ==
    /\ conv_pc = "panic"
    /\ conv_error = "label not found"
    /\ \E L \in ClaimLabelsPassed : ClaimLabelRows(L) = {}
    /\ Len(handled) >= 2

\* The fixed program columns of the output: p_line and the program constants.
ClaimProgramColumns ==
    {k \in DOMAIN conv_out :
        /\ conv_out[k].kind = "PolynomialConstantDefinition"
        /\ conv_out[k].name[1] = "p"}

\* C7: for every program, the empty one included, every fixed program
\* column has as many explicit rows as p_line: N values followed by the
\* repetition of the last one, and for N = 0 the single repeated zero for
\* p_line and for every other column.
C7_ColumnsAsLongAsPLine ==
    ConvDone =>
        /\ {conv_out[k].name : k \in ClaimProgramColumns}
              = {<<"p", "line">>} \cup Range(converter.program_constant_names)
        /\ Cardinality(ClaimProgramColumns)
              = 1 + Len(converter.program_constant_names)
        /\ ClaimColumn(<<"p", "line">>).array.values
              = [i \in 1..ClaimRows |-> [kind |-> "Number", value |-> i - 1]]
        /\ \A k \in ClaimProgramColumns :
              /\ Len(conv_out[k].array.values)
                    = Len(ClaimColumn(<<"p", "line">>).array.values)
              /\ conv_out[k].array.repeated =
                    IF ClaimRows = 0 THEN << [kind |-> "Number", value |-> 0] >>
                    ELSE << conv_out[k].array.values[ClaimRows] >>

\* Witness of C7: convert has returned for the empty program.
C7_Witness ==
    /\ ConvDone
    /\ handled = <<>>
    /\ ClaimRows = 0
    /\ Cardinality(ClaimProgramColumns) > 1

\* The message of the panic for an unsigned literal out of range.
ClaimUnsignedMessage == "Number passed to unsigned parameter is negative or too large"

\* C8: a numeric literal n passed for an unsigned parameter is accepted if
\* and only if 0 <= n <= (p - 1) / 2 for the field modulus p; an accepted n
\* is recorded as the literal argument of the call, and a rejected one ends
\* the conversion with "Number passed to unsigned parameter is negative or
\* too large"; so it is for the largest lower-half value and the one above.
C8_UnsignedLowerHalf ==
    \A i \in DOMAIN handled :
        \A c \in {d \in Range(handled[i]) : d.kind = "Instruction" /\ d.instr = <<"inc">>} :
            IF 0 <= c.args[1].value /\ c.args[1].value <= (FieldModulus - 1) \div 2
            THEN /\ i <= ClaimRows
                 /\ converter.code_lines[i].instructions
                       = << <<c.instr, << [kind |-> "Number", arg |-> c.args[1].value] >> >> >>
                 /\ i = Len(handled) => conv_error # ClaimUnsignedMessage
            ELSE /\ i = Len(handled)
                 /\ ClaimRows = i - 1
                 /\ conv_pc = "panic"
                 /\ conv_error = ClaimUnsignedMessage

\* Witness of C8: the largest lower-half value has been accepted and, after
\* it, the smallest value above it rejected.
C8_Witness ==
    /\ Len(handled) = 2
    /\ handled[1] = <<InstructionStatement(<<"inc">>,
                          <<Number((FieldModulus - 1) \div 2)>>)>>
    /\ handled[2] = <<InstructionStatement(<<"inc">>,
                          <<Number((FieldModulus - 1) \div 2 + 1)>>)>>
    /\ ClaimRows = 1
    /\ conv_pc = "panic"

\* The field element a numeric argument stands for: the number itself, the
\* field negation for a negated number.
ClaimLiteral(arg) ==
    IF arg.kind = "Number" THEN arg.value
    ELSE (FieldModulus - arg.expr.value) % FieldModulus

\* C10: for every instruction I and row i, p_instr_<I>[i] is 1 if the row
\* calls I and 0 otherwise; for every literal parameter a of I,
\* p_instr_<I>_param_<a>[i] is the literal passed on row i when the row calls
\* I (a number verbatim, a negated signed number as its field negation, a
\* label as its row) and 0 on every row that does not call I.
C10_InstructionColumns ==
    ConvDone =>
        \A I \in ClaimInstructions : \A i \in 0..(ClaimRows - 1) :
            /\ ClaimCell(<<"p", "instr">> \o I, i)
                  = (IF ClaimCalls(I, i) # {} THEN 1 ELSE 0)
            /\ \A j \in DOMAIN ClaimInputs(I) :
                  LET cell == ClaimCell(<<"p", "instr">> \o I \o <<"param">>
                                            \o ClaimInputs(I)[j].name, i)
                  IN /\ ClaimCalls(I, i) = {} => cell = 0
                     /\ \A c \in ClaimCalls(I, i) :
                           IF ClaimInputs(I)[j].ty = Some("label")
                           THEN cell \in ClaimLabelRows(c.args[j].name)
                           ELSE cell = ClaimLiteral(c.args[j])

\* Witness of C10: convert has returned for a program that passes a number
\* to inc on one row and a negated number to adj on another.
C10_Witness ==
    /\ ConvDone
    /\ ClaimRows = 3
    /\ ClaimCalls(<<"inc">>, 0) # {}
    /\ \E c \in ClaimCalls(<<"adj">>, 2) : c.args[1].kind = "UnaryOperation"
    /\ ClaimCalls(<<"adj">>, 1) = {}

\* The rows (one-based) of the CodeLines that carry the label L.
ClaimLinesLabelled(L) ==
    {r \in DOMAIN converter.code_lines : converter.code_lines[r].label = Some(L)}

\* The materialization of the program table has run: convert has returned
\* or has panicked after the last batch was accepted.
ClaimMaterialized ==
    /\ conv_pc \in {"done", "panic"}
    /\ Len(handled) = Len(converter.code_lines)

\* C13: a program in which two CodeLines carry the same label name fails
\* in the materialization of the program table with the duplicate-label
\* error and without output, whether or not a call passes the label.
C13_DuplicateLabelFails ==
    (ClaimMaterialized /\ \E L \in ProgLabels : Cardinality(ClaimLinesLabelled(L)) >= 2)
        => /\ conv_pc = "panic"
           /\ conv_error = "Duplicate label"
           /\ conv_out = <<>>

\* Witness of C13: the materialization has failed on a label that two rows
\* carry and no call of the program passes.
C13_Witness ==
    /\ ClaimMaterialized
    /\ conv_error = "Duplicate label"
    /\ \E L \in ProgLabels :
          /\ Cardinality(ClaimLinesLabelled(L)) >= 2
          /\ L \notin ClaimLabelsPassed

\* The value of the column at row i (zero-based) of a trace of any length:
\* the explicit values, then the repeated ones.
ClaimValueAt(name, i) ==
    LET array == ClaimColumn(name).array
    IN IF i < Len(array.values) THEN array.values[i + 1].value
       ELSE array.repeated[((i - Len(array.values)) % Len(array.repeated)) + 1].value

\* C14: with N > 0 CodeLines, one for each batch in batch order, p_line has
\* the value i on every row i < N and the value N - 1 on every row past the
\* end of the program.
C14_PLinePadded ==
    (ConvDone /\ ClaimRows > 0) =>
        /\ ClaimRows = Len(handled)
        /\ \A k \in DOMAIN handled :
              LET calls == SelectSeq(handled[k], LAMBDA c : c.kind = "Instruction")
              IN [j \in DOMAIN calls |-> calls[j].instr]
                    = [j \in DOMAIN converter.code_lines[k].instructions |->
                          converter.code_lines[k].instructions[j][1]]
        /\ \A i \in 0..(2 * ClaimRows) :
              ClaimValueAt(<<"p", "line">>, i)
                 = IF i < ClaimRows THEN i ELSE ClaimRows - 1

\* Witness of C14: convert has returned for a program of MaxBatches lines,
\* and p_line repeats its last value past them.
C14_Witness ==
    /\ ConvDone
    /\ ClaimRows = MaxBatches
    /\ ClaimValueAt(<<"p", "line">>, ClaimRows - 1) = ClaimRows - 1
    /\ ClaimValueAt(<<"p", "line">>, ClaimRows + 1) = ClaimRows - 1

(***************************************************************************)
(* Claims about batches and assignments (checked under SpecAsg and         *)
(* SpecMerge)                                                              *)
(***************************************************************************)

\* The CodeLine of the k-th batch handled, and whether the batch was
\* accepted (every accepted batch of these programs appends one CodeLine).
ClaimAccepted(k) == k <= Len(converter.code_lines)

ClaimLine(k) == converter.code_lines[k]

\* The batch that was rejected, if the conversion stopped in handle_batch.
ClaimRejected(k) == k = Len(handled) /\ k = Len(converter.code_lines) + 1

\* The assignments target <=X= value of a batch that are not calls.
ClaimContributions(b) ==
    SelectSeq(b, LAMBDA s : /\ s.kind = "Assignment"
                            /\ s.assign_reg = Some(<<"X">>)
                            /\ s.value.kind # "FunctionCall")

\* C12: when two statements of one batch both contribute under the same
\* assignment register (a value, a list of target registers), the batch is
\* not rejected and the merged CodeLine holds every target and every term
\* of both contributions under that register.
C12_MergedHoldsBoth ==
    \A k \in DOMAIN handled :
        LET contributions == ClaimContributions(handled[k])
        IN Len(contributions) >= 2 =>
              /\ ClaimAccepted(k)
              /\ \A j \in DOMAIN contributions :
                    /\ Range(contributions[j].write_regs)
                          \subseteq Range(ClaimLine(k).write_regs[<<"X">>])
                    /\ Range(process_assignment_value(contributions[j].value).v)
                          \subseteq Range(ClaimLine(k).value[<<"X">>])

\* The Label statements of a batch.
ClaimLabels(b) == SelectSeq(b, LAMBDA s : s.kind = "Label")

\* C15 as stated: a batch holding exactly one Label statement, at any
\* position among its statements, is merged into one CodeLine that carries
\* that label; a batch holding two or more Label statements fails.
C15_OneLabelAnywhere ==
    \A k \in DOMAIN handled :
        /\ Len(ClaimLabels(handled[k])) = 1 =>
              /\ ClaimAccepted(k)
              /\ ClaimLine(k).label = Some(ClaimLabels(handled[k])[1].name)
        /\ Len(ClaimLabels(handled[k])) >= 2 =>
              /\ ClaimRejected(k)
              /\ conv_pc = "panic"

\* C15 as amended: a batch whose only Label statement is its first
\* statement, and whose other statements convert, is merged into one
\* CodeLine that carries that label; a batch holding a Label statement at
\* any later position (so every batch of two or more labels) fails.
C15_LabelFirstOnly ==
    \A k \in DOMAIN handled :
        /\ ( /\ Len(ClaimLabels(handled[k])) = 1
             /\ handled[k][1].kind = "Label"
             /\ \A j \in DOMAIN handled[k] : handle_statement(converter, handled[k][j]).ok )
              => /\ ClaimAccepted(k)
                 /\ ClaimLine(k).label = Some(handled[k][1].name)
        /\ (\E j \in 2..Len(handled[k]) : handled[k][j].kind = "Label")
              => /\ ClaimRejected(k)
                 /\ conv_pc = "panic"

\* Witness of C15: a batch of a label followed by an assignment was merged
\* into a line with the label, and the batch of an assignment followed by
\* its only label was rejected.
C15_Witness ==
    /\ Len(handled) = 2
    /\ handled[1] = <<LabelStatement(<<"l2">>), AssignX(<<"A">>, Number(1))>>
    /\ ClaimLine(1).label = Some(<<"l2">>)
    /\ ClaimLine(1).value = (<<"X">> :> << <<1, Constant>> >>)
    /\ handled[2] = <<AssignX(<<"A">>, Number(1)), LabelStatement(<<"l1">>)>>
    /\ ClaimRejected(2)
    /\ conv_error = "assertion failed: e.label.is_none()"

RECURSIVE ClaimFieldSum(_)
\* The sum in the field of a sequence of coefficients.
ClaimFieldSum(coefficients) ==
    IF coefficients = <<>> THEN 0
    ELSE (Head(coefficients) + ClaimFieldSum(Tail(coefficients))) % FieldModulus

\* The coefficients of the terms with this component in the affine
\* expression of row i (zero-based) for the assignment register.
ClaimCoefficients(i, assign_reg, component) ==
    LET value == converter.code_lines[i + 1].value
        terms == IF assign_reg \in DOMAIN value
                 THEN SelectSeq(value[assign_reg], LAMBDA t : t[2] = component)
                 ELSE <<>>
    IN [k \in DOMAIN terms |-> terms[k][1]]

\* C16: for every row i and assignment register X, p_read_X_R[i] is the
\* field sum of the coefficients of the Register(R) terms of the row's
\* affine expression for X, and p_X_const[i] the field sum of the
\* coefficients of its Constant terms.
C16_CoefficientsAccumulate ==
    ConvDone =>
        \A i \in 0..(ClaimRows - 1) : \A X \in Range(assignment_registers(converter)) :
            /\ \A R \in Range(regular_registers(converter)) :
                  ClaimCell(<<"p", "read">> \o X \o R, i)
                     = ClaimFieldSum(ClaimCoefficients(i, X, Register(R)))
            /\ ClaimCell(<<"p">> \o X \o <<"const">>, i)
                  = ClaimFieldSum(ClaimCoefficients(i, X, Constant))

\* Witness of C16: convert has returned for the program A <=X= A + A;
\* A <=X= 3 + 4; A <=X= A - A, with the cells 2, 3 + 4 and 0.
C16_Witness ==
    /\ ConvDone
    /\ handled = << <<AssignX(<<"A">>, build_add(RefA, RefA))>>,
                    <<AssignX(<<"A">>, build_add(Number(ToField(3)), Number(ToField(4))))>>,
                    <<AssignX(<<"A">>, build_sub(RefA, RefA))>> >>
    /\ ClaimCell(<<"p", "read", "X", "A">>, 0) = ToField(2)
    /\ ClaimCell(<<"p", "X", "const">>, 1) = ToField(3 + 4)
    /\ ClaimCell(<<"p", "read", "X", "A">>, 2) = 0

\* The assignment registers through which row i (zero-based), the merged
\* CodeLine, writes to a register while it calls an instruction.
ClaimOutputRegisters(i) ==
    LET line == converter.code_lines[i + 1]
    IN IF line.instructions = <<>> THEN {}
       ELSE {X \in DOMAIN line.write_regs : line.write_regs[X] # <<>>}

\* The accumulated coefficient of the free inputs of row i for X.
ClaimFreeCoefficient(i, X) ==
    LET terms == SelectSeq(converter.code_lines[i + 1].value[X],
                           LAMBDA t : t[2].kind = "FreeInput")
    IN ClaimFieldSum([k \in DOMAIN terms |-> terms[k][1]])

\* C17: on every row whose instruction call writes an output through the
\* assignment register X, p_X_read_free is exactly 1, whatever the
\* accumulated coefficient of the free inputs for X on that row is.
C17_ReadFreeForced ==
    ConvDone =>
        \A i \in 0..(ClaimRows - 1) : \A X \in ClaimOutputRegisters(i) :
            ClaimCell(<<"p">> \o X \o <<"read_free">>, i) = 1

\* Witness of C17: convert has returned for three calls of wr whose inputs
\* accumulate the free-input coefficients -1, 0 and 2 for X.
C17_Witness ==
    /\ ConvDone
    /\ handled = << <<CallWr(<<"A">>, build_unary_expr("Minus", Query))>>,
                    <<InstructionStatement(<<"wr">>, <<RefA, RefB>>)>>,
                    <<CallWr(<<"B">>, build_add(Query, Query))>> >>
    /\ ClaimFreeCoefficient(0, <<"X">>) = FNeg(1)
    /\ ClaimFreeCoefficient(1, <<"X">>) = 0
    /\ ClaimFreeCoefficient(2, <<"X">>) = ToField(2)
    /\ \A i \in 0..2 : ClaimOutputRegisters(i) = {<<"X">>}
    /\ \A i \in 0..2 : ClaimCell(<<"p", "X", "read_free">>, i) = 1

\* The product of the k-th batch handled, if its right-hand side is one.
ClaimIsProduct(k) ==
    /\ Len(handled[k]) = 1
    /\ handled[k][1].kind = "Assignment"
    /\ handled[k][1].value.kind = "BinaryOperation"
    /\ handled[k][1].value.op = "Mul"

\* The reductions of the two sides of the product of batch k.
ClaimLeft(k) == process_assignment_value(handled[k][1].value.left)

ClaimRight(k) == process_assignment_value(handled[k][1].value.right)

\* A reduced side is a pure constant: the one term (c, Constant).
ClaimPureConstant(side) ==
    /\ side.ok
    /\ Len(side.v) = 1
    /\ side.v[1][2].kind = "Constant"

\* Every term of the reduced side, its coefficient multiplied by c.
ClaimScaled(c, side) ==
    [j \in DOMAIN side.v |-> <<(c * side.v[j][1]) % FieldModulus, side.v[j][2]>>]

\* C18 as stated: a product l * r succeeds if and only if exactly one of l
\* and r reduces to a pure constant, and the result is then every term of
\* the other side with its coefficient multiplied by that constant; a
\* product in which neither side or both sides are pure constants fails.
C18_ExactlyOneConstant ==
    \A k \in DOMAIN handled :
        ClaimIsProduct(k) =>
            /\ ClaimAccepted(k)
                  <=> (ClaimPureConstant(ClaimLeft(k)) # ClaimPureConstant(ClaimRight(k)))
            /\ (ClaimAccepted(k) /\ ClaimPureConstant(ClaimLeft(k)))
                  => ClaimLine(k).value[<<"X">>]
                        = ClaimScaled(ClaimLeft(k).v[1][1], ClaimRight(k))
            /\ (ClaimAccepted(k) /\ ~ClaimPureConstant(ClaimLeft(k)))
                  => ClaimLine(k).value[<<"X">>]
                        = ClaimScaled(ClaimRight(k).v[1][1], ClaimLeft(k))

\* C18 as amended: a product l * r of two sides that reduce succeeds if and
\* only if at least one of l and r reduces to a pure constant (one Constant
\* term), and the result is then every term of the other side with its
\* coefficient multiplied by that constant, the left side taken as the
\* constant when both are; a product in which neither side is a pure
\* constant fails (multiplication by non-constant).
C18_SomeConstant ==
    \A k \in DOMAIN handled :
        (ClaimIsProduct(k) /\ ClaimLeft(k).ok /\ ClaimRight(k).ok) =>
            /\ ClaimAccepted(k)
                  <=> (ClaimPureConstant(ClaimLeft(k)) \/ ClaimPureConstant(ClaimRight(k)))
            /\ (ClaimAccepted(k) /\ ClaimPureConstant(ClaimLeft(k)))
                  => ClaimLine(k).value[<<"X">>]
                        = ClaimScaled(ClaimLeft(k).v[1][1], ClaimRight(k))
            /\ (ClaimAccepted(k) /\ ~ClaimPureConstant(ClaimLeft(k)))
                  => ClaimLine(k).value[<<"X">>]
                        = ClaimScaled(ClaimRight(k).v[1][1], ClaimLeft(k))
            /\ ClaimRejected(k)
                  => /\ conv_pc = "panic"
                     /\ conv_error = "Multiplication by non-constant."

\* Witness of C18: the products 2 * (A + 3) and 2 * 3 were reduced, the
\* product A * B was rejected.
C18_Witness ==
    /\ Len(handled) = 3
    /\ handled[1] = <<AssignX(<<"A">>, build_mul(Number(2), build_add(RefA, Number(3))))>>
    /\ ClaimLine(1).value[<<"X">>]
          = << <<ToField(2), Register(<<"A">>)>>, <<ToField(2 * 3), Constant>> >>
    /\ handled[2] = <<AssignX(<<"A">>, build_mul(Number(2), Number(3)))>>
    /\ ClaimLine(2).value[<<"X">>] = << <<ToField(2 * 3), Constant>> >>
    /\ handled[3] = <<AssignX(<<"A">>, build_mul(RefA, RefB))>>
    /\ ClaimRejected(3)
    /\ conv_error = "Multiplication by non-constant."

RECURSIVE ClaimHasInvalidOperator(_)
\* The expression that is reduced contains one of the rejected operators,
\* at any depth below its binary and unary operators (the query of a free
\* input is not reduced: it is a component of the affine expression).
ClaimHasInvalidOperator(e) ==
    CASE e.kind = "BinaryOperation" ->
            \/ e.op \in {"Div", "Mod", "BinaryAnd", "BinaryXor", "BinaryOr",
                         "ShiftLeft", "ShiftRight"}
            \/ ClaimHasInvalidOperator(e.left)
            \/ ClaimHasInvalidOperator(e.right)
      [] e.kind = "UnaryOperation" -> ClaimHasInvalidOperator(e.expr)
      [] OTHER -> FALSE

ClaimIsCall(k) ==
    /\ Len(handled[k]) = 1
    /\ \/ handled[k][1].kind = "Instruction"
       \/ handled[k][1].kind = "Assignment" /\ handled[k][1].value.kind = "FunctionCall"

ClaimArguments(k) ==
    IF handled[k][1].kind = "Instruction" THEN Len(handled[k][1].args)
    ELSE Len(handled[k][1].value.args) + Len(handled[k][1].write_regs)

ClaimParameters(k) ==
    LET name == IF handled[k][1].kind = "Instruction" THEN handled[k][1].instr
                ELSE handled[k][1].value.name
        decl == AsgDeclarations[CHOOSE d \in DOMAIN AsgDeclarations :
                    /\ AsgDeclarations[d].kind = "InstructionDeclaration"
                    /\ AsgDeclarations[d].name = name]
    IN Len(decl.params.inputs)
          + (IF decl.params.outputs = None THEN 0 ELSE Len(decl.params.outputs[1]))

\* C20: a call of a declared instruction succeeds only if the number of its
\* arguments is len(inputs) + len(outputs) of the instruction; a call with
\* fewer or more arguments fails and appends no CodeLine.
C20_CallArity ==
    \A k \in DOMAIN handled :
        ClaimIsCall(k) =>
            /\ ClaimAccepted(k) => ClaimArguments(k) = ClaimParameters(k)
            /\ ClaimArguments(k) # ClaimParameters(k)
                  => /\ ClaimRejected(k)
                     /\ conv_pc = "panic"
                     /\ Len(converter.code_lines) = k - 1

\* Witness of C20: the call wr A, B was accepted, the call wr ${i}, A, B
\* with one argument more was rejected by the assertion on the lengths.
C20_Witness ==
    /\ Len(handled) = 2
    /\ handled[1] = <<InstructionStatement(<<"wr">>, <<RefA, RefB>>)>>
    /\ ClaimAccepted(1)
    /\ ClaimLine(1).instructions = << <<<<"wr">>, <<>>>> >>
    /\ handled[2] = <<InstructionStatement(<<"wr">>, <<Query, RefA, RefB>>)>>
    /\ ClaimRejected(2)
    /\ conv_error = "assertion failed: inputs.len() + outputs.len() == args.len()"

RECURSIVE ClaimInAffineForm(_)
\* The right-hand side is built from register references, numbers, free
\* inputs, +, -, unary minus and products.
ClaimInAffineForm(e) ==
    CASE e.kind \in {"PolynomialReference", "Number", "FreeInput"} -> TRUE
      [] e.kind = "BinaryOperation" ->
            /\ e.op \in {"Add", "Sub", "Mul"}
            /\ ClaimInAffineForm(e.left)
            /\ ClaimInAffineForm(e.right)
      [] e.kind = "UnaryOperation" -> e.op = "Minus" /\ ClaimInAffineForm(e.expr)
      [] OTHER -> FALSE

RECURSIVE ClaimComponents(_)
\* The registers and free inputs a right-hand side refers to.
ClaimComponents(e) ==
    CASE e.kind = "PolynomialReference" -> {Register(e.name)}
      [] e.kind = "FreeInput" -> {FreeInputComponent(e.expr)}
      [] e.kind = "BinaryOperation" -> ClaimComponents(e.left) \cup ClaimComponents(e.right)
      [] e.kind = "UnaryOperation" -> ClaimComponents(e.expr)
      [] OTHER -> {}

RECURSIVE ClaimSourceValue(_, _)
\* The value of a right-hand side under a valuation of its registers and
\* free inputs.
ClaimSourceValue(e, valuation) ==
    CASE e.kind = "PolynomialReference" -> valuation[Register(e.name)]
      [] e.kind = "FreeInput" -> valuation[FreeInputComponent(e.expr)]
      [] e.kind = "Number" -> e.value % FieldModulus
      [] e.kind = "UnaryOperation" ->
            (FieldModulus - ClaimSourceValue(e.expr, valuation)) % FieldModulus
      [] e.kind = "BinaryOperation" ->
            CASE e.op = "Add" ->
                    (ClaimSourceValue(e.left, valuation)
                        + ClaimSourceValue(e.right, valuation)) % FieldModulus
              [] e.op = "Sub" ->
                    (ClaimSourceValue(e.left, valuation) + FieldModulus
                        - ClaimSourceValue(e.right, valuation)) % FieldModulus
              [] e.op = "Mul" ->
                    (ClaimSourceValue(e.left, valuation)
                        * ClaimSourceValue(e.right, valuation)) % FieldModulus

RECURSIVE ClaimTermsValue(_, _)
\* The field sum of coefficient * component value over a term list, the
\* component Constant having the value 1.
ClaimTermsValue(terms, valuation) ==
    IF terms = <<>> THEN 0
    ELSE LET component == Head(terms)[2]
             v == IF component = Constant THEN 1 % FieldModulus
                  ELSE valuation[component]
         IN ((Head(terms)[1] * v) + ClaimTermsValue(Tail(terms), valuation))
               % FieldModulus

\* C29: for every right-hand side built from register references, numbers,
\* free inputs, +, -, unary minus and multiplication that
\* process_assignment_value reduces, and every valuation of its registers
\* and free inputs, the field sum of coefficient * component value over the
\* reduced term list is the value of the right-hand side.
C29_ReductionPreservesValue ==
    \A k \in DOMAIN handled :
       (ClaimAccepted(k) /\ ClaimInAffineForm(handled[k][1].value)) =>
          \A valuation \in [ClaimComponents(handled[k][1].value) -> FieldElements] :
             ClaimTermsValue(ClaimLine(k).value[<<"X">>], valuation)
                = ClaimSourceValue(handled[k][1].value, valuation)

\* The program  A <=X= -(B - ${i});  A <=X= 2 * (A + 3);  A <=X= A - A  is
\* reduced.
C29_Witness ==
    /\ Len(handled) = 3
    /\ ClaimAccepted(3)
    /\ handled[1][1].value = build_unary_expr("Minus", build_sub(RefB, Query))
    /\ handled[2][1].value = build_mul(Number(2), build_add(RefA, Number(3)))
    /\ handled[3][1].value = build_sub(RefA, RefA)

(***************************************************************************)
(* Claims about calls and the read_free flag (checked under SpecFun)       *)
(***************************************************************************)

\* The functional call of the k-th batch handled, if the batch is one.
ClaimIsFunctionalCall(k) ==
    /\ Len(handled[k]) = 1
    /\ handled[k][1].kind = "Assignment"
    /\ handled[k][1].value.kind = "FunctionCall"

\* The outputs the machine declares for an instruction.
ClaimDeclaredOutputs(name) ==
    LET decl == FunDeclarations[CHOOSE d \in DOMAIN FunDeclarations :
                    /\ FunDeclarations[d].kind = "InstructionDeclaration"
                    /\ FunDeclarations[d].name = name]
    IN IF decl.params.outputs = None THEN <<>>
       ELSE [j \in DOMAIN decl.params.outputs[1] |-> decl.params.outputs[1][j].name]

\* The plain call instr(args, target) of the functional call s.
ClaimPlainCall(s) ==
    InstructionStatement(s.value.name,
                         Append(s.value.args, direct_reference(s.write_regs[1])))

\* C21: a functional call target <=X= instr(args) succeeds only if instr
\* has exactly one declared output and that output is X; it then yields
\* the CodeLine of the plain call instr(args, target), with
\* write_regs = {X -> [target]}; if the declared output differs from X, or
\* the instruction has zero or several outputs, it fails.
C21_FunctionalCall ==
    \A k \in DOMAIN handled :
        ClaimIsFunctionalCall(k) =>
            LET s == handled[k][1]
                X == s.assign_reg[1]
            IN /\ ClaimAccepted(k) =>
                     /\ ClaimDeclaredOutputs(s.value.name) = <<X>>
                     /\ ClaimLine(k).write_regs = (X :> <<s.write_regs[1]>>)
                     /\ \A j \in DOMAIN handled :
                           (handled[j] = <<ClaimPlainCall(s)>> /\ ClaimAccepted(j))
                              => ClaimLine(j) = ClaimLine(k)
               /\ ClaimDeclaredOutputs(s.value.name) # <<X>> =>
                     /\ ClaimRejected(k)
                     /\ conv_pc = "panic"

\* Witness of C21: the functional call A <=X= wr(${i}) and the plain call
\* wr ${i}, A were merged into equal lines, and the call A <=X= wy(A) of an
\* instruction with the output Y was rejected.
C21_Witness ==
    /\ Len(handled) = 3
    /\ handled[1] = <<FunctionalCall(<<"A">>, <<"X">>, <<"wr">>, <<Query>>)>>
    /\ handled[2] = <<InstructionStatement(<<"wr">>, <<Query, RefA>>)>>
    /\ ClaimLine(1) = ClaimLine(2)
    /\ ClaimLine(1).write_regs = (<<"X">> :> << <<"A">> >>)
    /\ handled[3] = <<FunctionalCall(<<"A">>, <<"X">>, <<"wy">>, <<RefA>>)>>
    /\ ClaimRejected(3)
    /\ conv_error = "The instruction uses another assignment register than the caller"

\* The instructions called on row i (zero-based), in both forms of call.
ClaimCalledInstructions(i) ==
    {s.instr : s \in {c \in Range(handled[i + 1]) : c.kind = "Instruction"}}
    \cup {s.value.name :
             s \in {c \in Range(handled[i + 1]) :
                       c.kind = "Assignment" /\ c.value.kind = "FunctionCall"}}

\* The accumulated coefficient of the FreeInput terms of X's value on row i.
ClaimFreeSum(i, X) ==
    LET value == converter.code_lines[i + 1].value
        terms == IF X \in DOMAIN value
                 THEN SelectSeq(value[X], LAMBDA t : t[2].kind = "FreeInput")
                 ELSE <<>>
    IN ClaimFieldSum([k \in DOMAIN terms |-> terms[k][1]])

\* C30: p_X_read_free on row i is force-set to 1 only if some instruction
\* called on row i declares X as the assignment register of one of its
\* outputs; on every other row, also one that calls an instruction without
\* an output through X, it is the accumulated coefficient of the FreeInput
\* terms of X's value on that row.
C30_OverrideOnlyForOutputs ==
    ConvDone =>
        \A i \in 0..(ClaimRows - 1) : \A X \in Range(assignment_registers(converter)) :
            (\A I \in ClaimCalledInstructions(i) : X \notin Range(ClaimDeclaredOutputs(I)))
               => ClaimCell(<<"p">> \o X \o <<"read_free">>, i) = ClaimFreeSum(i, X)

(***************************************************************************)
(* Claims about declarations (checked under SpecDecl)                      *)
(***************************************************************************)

\* A step of convert that handles an instruction declaration.
ClaimDeclaresInstruction ==
    /\ conv_pc = "run"
    /\ declarations # <<>>
    /\ declarations' = Tail(declarations)
    /\ Head(declarations).kind = "InstructionDeclaration"

\* The names of the literal parameters of a declared instruction.
ClaimLiteralNames(decl) ==
    {decl.params.inputs[i].name :
        i \in {j \in DOMAIN decl.params.inputs : IsSome(decl.params.inputs[j].ty)}}

RECURSIVE ClaimWithColumns(_, _)
\* The expression with every literal parameter of the declared instruction
\* replaced by the column instr_<name>_param_<arg>.
ClaimWithColumns(expr, decl) ==
    CASE expr.kind = "PolynomialReference" ->
            IF expr.name \in ClaimLiteralNames(decl)
            THEN [expr EXCEPT !.name = <<"instr">> \o decl.name \o <<"param">> \o expr.name]
            ELSE expr
      [] expr.kind = "BinaryOperation" ->
            [expr EXCEPT !.left = ClaimWithColumns(expr.left, decl),
                         !.right = ClaimWithColumns(expr.right, decl)]
      [] expr.kind = "UnaryOperation" ->
            [expr EXCEPT !.expr = ClaimWithColumns(expr.expr, decl)]
      [] OTHER -> expr

\* The body expression has the shape next(reg) = rhs.
ClaimIsUpdateOf(expr, reg) ==
    /\ expr.kind = "BinaryOperation"
    /\ expr.op = "Sub"
    /\ expr.left.kind = "PolynomialReference"
    /\ expr.left.next
    /\ expr.left.name = reg

\* The conditioned updates the body of the declaration gives to reg, in the
\* order of the body.
ClaimBodyUpdates(decl, reg) ==
    LET exprs == [i \in DOMAIN decl.body |-> decl.body[i].expr]
        updates == SelectSeq(exprs, LAMBDA e : ClaimIsUpdateOf(e, reg))
    IN [i \in DOMAIN updates |->
           <<direct_reference(<<"instr">> \o decl.name),
             ClaimWithColumns(updates[i].right, decl)>>]

\* The identities the body of the declaration emits, in the order of the
\* body.
ClaimBodyIdentities(decl) ==
    LET exprs == [i \in DOMAIN decl.body |-> decl.body[i].expr]
        others == SelectSeq(exprs,
                      LAMBDA e : \A reg \in DOMAIN converter.registers :
                                    ~ClaimIsUpdateOf(e, reg))
    IN [i \in DOMAIN others |->
           PolynomialIdentity(build_mul(direct_reference(<<"instr">> \o decl.name),
                                        ClaimWithColumns(others[i], decl)))]

\* The statements of the given kind a step appends to the PIL output.
ClaimEmitted(kind) ==
    SelectSeq(SubSeq(converter'.pil, Len(converter.pil) + 1, Len(converter'.pil)),
              LAMBDA s : s.kind = kind)

\* C22: declaring an instruction appends, for every body expression
\* next(reg) = rhs, the conditioned update (instr_<name>, rhs) to register reg
\* after the updates reg already has, with the literal parameters replaced by
\* their columns, and emits no identity for it; every other body expression
\* emits the identity instr_<name> * expr = 0 and changes no register's
\* conditioned updates.
C22_BodyOfInstruction ==
    [][ClaimDeclaresInstruction =>
          /\ DOMAIN converter'.registers = DOMAIN converter.registers
          /\ \A reg \in DOMAIN converter.registers :
                converter'.registers[reg].conditioned_updates =
                   converter.registers[reg].conditioned_updates
                      \o ClaimBodyUpdates(Head(declarations), reg)
          /\ ClaimEmitted("PolynomialIdentity") = ClaimBodyIdentities(Head(declarations))
       ]_vars

\* Both instructions are declared after a write through X to A was set up:
\* A has the updates of its declaration followed by the one of inc, pc has
\* the one of jmp, and the other body expression of inc is an identity.
C22_Witness ==
    /\ {<<"inc">>, <<"jmp">>} \subseteq DOMAIN converter.instructions
    /\ Len(converter.registers[<<"A">>].conditioned_updates) = 3
    /\ converter.registers[<<"A">>].conditioned_updates[3] =
          <<direct_reference(<<"instr", "inc">>),
            build_add(direct_reference(<<"X">>),
                      direct_reference(<<"instr", "inc", "param", "amount">>))>>
    /\ converter.registers[<<"pc">>].conditioned_updates =
          << <<direct_reference(<<"instr", "jmp">>),
               direct_reference(<<"instr", "jmp", "param", "l">>)>> >>
    /\ \E i \in DOMAIN converter.pil :
          converter.pil[i] = PolynomialIdentity(
             build_mul(direct_reference(<<"instr", "inc">>),
                       build_sub(direct_reference(<<"A">>),
                                 direct_reference(<<"instr", "inc", "param", "amount">>))))

\* A step of convert that handles the declaration of a regular register.
ClaimDeclaresRegular ==
    /\ conv_pc = "run"
    /\ declarations # <<>>
    /\ declarations' = Tail(declarations)
    /\ Head(declarations).kind = "RegisterDeclaration"
    /\ Head(declarations).flags = None

\* The pairs (reg_write_<A>_<name>, A) for the assignment registers A
\* declared before the step.
ClaimWritePairs(name) ==
    {<<direct_reference(<<"reg_write">> \o a \o name), direct_reference(a)>> :
        a \in {r \in DOMAIN converter.registers : converter.registers[r].is_assignment}}

ClaimPil == IF conv_pc = "done" THEN conv_out ELSE converter.pil

ClaimIsDeclared(name) ==
    \E k \in DOMAIN ClaimPil : ClaimPil[k] = witness_column(name, None)

\* Both registers are declared, the first one before the second one.
ClaimDeclaredBefore(first, second) ==
    \E j, k \in DOMAIN ClaimPil :
       /\ j < k
       /\ ClaimPil[j] = witness_column(first, None)
       /\ ClaimPil[k] = witness_column(second, None)

\* Some statement of the program assigns to reg through assign_reg.
ClaimWritesThrough(assign_reg, reg) ==
    \E k \in DOMAIN handled : \E j \in DOMAIN handled[k] :
       /\ handled[k][j].kind = "Assignment"
       /\ handled[k][j].assign_reg = Some(assign_reg)
       /\ reg \in Range(handled[k][j].write_regs)

\* The program is not empty and all its statements are  inc A, 1.
ClaimOnlyReads ==
    /\ handled # <<>>
    /\ \A k \in DOMAIN handled :
          handled[k] = <<InstructionStatement(<<"inc">>, <<RefA, Number(1)>>)>>

\* C24: the write flag reg_write_<X>_<R> exists exactly when the assignment
\* register X is declared before the regular register R; with R declared
\* before X a program that assigns to R through X fails when the program
\* table is materialized, with the missing-combination error; a program that
\* only reads R through X is materialized in both orders, with its
\* coefficient in p_read_<X>_<R>.
C24_WriteFlagNeedsOrder ==
    /\ \A x \in {<<"X">>, <<"Y">>} :
          (ClaimIsDeclared(x) /\ ClaimIsDeclared(<<"A">>)) =>
             ((<<"p", "reg_write">> \o x \o <<"A">>
                  \in Range(converter.program_constant_names))
              <=> ClaimDeclaredBefore(x, <<"A">>))
    /\ (/\ ClaimMaterialized
        /\ ClaimDeclaredBefore(<<"A">>, <<"X">>)
        /\ ClaimWritesThrough(<<"X">>, <<"A">>))
       => (conv_pc = "panic" /\ conv_error = "Register combination not found.")
    /\ (/\ ClaimMaterialized
        /\ ClaimIsDeclared(<<"X">>)
        /\ ClaimIsDeclared(<<"A">>)
        /\ ClaimIsDeclared(<<"pc">>)
        /\ ClaimOnlyReads)
       => /\ conv_pc = "done"
          /\ \A i \in 0..(Len(handled) - 1) : ClaimCell(<<"p", "read", "X", "A">>, i) = 1

\* A is declared before X and the program assigns to A through X: convert
\* fails when it materializes the program table.
C24_Witness ==
    /\ ClaimMaterialized
    /\ ClaimDeclaredBefore(<<"A">>, <<"X">>)
    /\ ClaimIsDeclared(<<"pc">>)
    /\ ClaimWritesThrough(<<"X">>, <<"A">>)
    /\ conv_pc = "panic"

\* The lookups of the output that have no selector on either side.
ClaimGlobalLookups ==
    {k \in DOMAIN conv_out :
        /\ conv_out[k].kind = "PlookupIdentity"
        /\ conv_out[k].left.selector = None
        /\ conv_out[k].right.selector = None}

\* The pairs of the lookup, position by position.
ClaimLookupPairs(lookup) ==
    [i \in DOMAIN lookup.left.expressions |->
        <<lookup.left.expressions[i], lookup.right.expressions[i]>>]

ClaimPcPair == <<direct_reference(<<"pc">>), direct_reference(<<"p", "line">>)>>

\* The pair at the position is a witness column n with the fixed column p_n.
ClaimIsFixedPair(pair) ==
    /\ pair[1].kind = "PolynomialReference"
    /\ ~pair[1].next
    /\ pair[2] = direct_reference(<<"p">> \o pair[1].name)

\* What C26 says of the lookup except for the position of the program
\* counter: tuples of equal length, the pair (pc, p_line) at the given
\* positions and pairs (n, p_n) elsewhere, and on the right exactly the
\* fixed program columns of the output.
ClaimLookupShape(lookup, pc_positions) ==
    LET pairs == ClaimLookupPairs(lookup)
    IN /\ Len(lookup.left.expressions) = Len(lookup.right.expressions)
       /\ pc_positions \subseteq DOMAIN pairs
       /\ \A i \in DOMAIN pairs :
             IF i \in pc_positions THEN pairs[i] = ClaimPcPair
             ELSE pairs[i] # ClaimPcPair /\ ClaimIsFixedPair(pairs[i])
       /\ {pairs[i][2] : i \in DOMAIN pairs}
             = {direct_reference(conv_out[k].name) : k \in ClaimProgramColumns}

\* C26 as stated: after any sequence of declarations followed by convert
\* there is exactly one global lookup without selectors, its tuples have
\* equal length, position 0 pairs the program counter with p_line, every
\* other position pairs a witness column n with p_n, and the right side
\* holds exactly p_line and the program columns that are emitted.
C26_PcAtPositionZero ==
    ConvDone =>
       /\ Cardinality(ClaimGlobalLookups) = 1
       /\ \A k \in ClaimGlobalLookups : ClaimLookupShape(conv_out[k], {1})

\* C26 (amended): after any sequence of declarations that declares the
\* program counter, followed by convert, there is exactly one global lookup
\* without selectors, its tuples have equal length, exactly one position
\* pairs the program counter with p_line (the position the declaration of
\* the program counter has among the pairs the declarations create), every
\* other position pairs a witness column n with p_n, and the right side
\* holds exactly p_line and the program columns that are emitted.
C26_PcAtOnePosition ==
    (ConvDone /\ ClaimIsDeclared(<<"pc">>)) =>
       /\ Cardinality(ClaimGlobalLookups) = 1
       /\ \A k \in ClaimGlobalLookups :
             \E p \in DOMAIN conv_out[k].left.expressions :
                /\ ClaimLookupShape(conv_out[k], {p})
                /\ p = 1 + Cardinality({i \in DOMAIN conv_out :
                            /\ conv_out[i].kind = "PolynomialCommitDeclaration"
                            /\ conv_out[i].name[1] \in {"reg_write", "instr"}
                            /\ \E j \in DOMAIN conv_out :
                                  /\ i < j
                                  /\ conv_out[j] = witness_column(<<"pc">>, None)})

\* convert returns for a machine that declares X, then A, then the program
\* counter, with a program of two lines: the lookup starts with the write
\* flag of A.
C26_Witness ==
    /\ ConvDone
    /\ ClaimDeclaredBefore(<<"X">>, <<"A">>)
    /\ ClaimDeclaredBefore(<<"A">>, <<"pc">>)
    /\ Len(handled) = 2
    /\ \E k \in ClaimGlobalLookups :
          /\ ClaimLookupPairs(conv_out[k])[1]
                = <<direct_reference(<<"reg_write", "X", "A">>),
                    direct_reference(<<"p", "reg_write", "X", "A">>)>>
          /\ \E p \in 2..Len(conv_out[k].left.expressions) :
                ClaimLookupPairs(conv_out[k])[p] = ClaimPcPair

\* The arms of the query of <X>_free_value in the output.
ClaimArms(X) ==
    conv_out[CHOOSE k \in DOMAIN conv_out :
                /\ conv_out[k].kind = "PolynomialCommitDeclaration"
                /\ conv_out[k].name = X \o <<"free_value">>].def[1].arms

\* The rows (zero-based) whose CodeLine has a FreeInput term under X.
ClaimFreeRows(X) ==
    {i \in 0..(Len(converter.code_lines) - 1) :
        /\ X \in DOMAIN converter.code_lines[i + 1].value
        /\ \E j \in DOMAIN converter.code_lines[i + 1].value[X] :
              converter.code_lines[i + 1].value[X][j][2].kind = "FreeInput"}

\* C27: for every assignment register X the dispatch table of X_free_value
\* has exactly one entry for each row with a FreeInput contribution for X,
\* keyed by the index of the row, the keys pairwise distinct and in
\* increasing row order, and no entry for any other row.
C27_OneArmPerRow ==
    ConvDone =>
       \A X \in {r \in DOMAIN converter.registers : converter.registers[r].is_assignment} :
          LET arms == ClaimArms(X)
          IN /\ \A k \in DOMAIN arms :
                   \E i \in ClaimFreeRows(X) : arms[k][1] = Some(Number(i))
             /\ \A i \in ClaimFreeRows(X) :
                   Cardinality({k \in DOMAIN arms : arms[k][1] = Some(Number(i))}) = 1
             /\ \A j, k \in DOMAIN arms :
                   j < k => arms[j][1][1].value < arms[k][1][1].value

(***************************************************************************)
(* Claims about update_expression (checked under SpecUpd)                  *)
(***************************************************************************)

\* The columns of the expressions of SpecUpd, and their valuations.
ClaimUpdColumns ==
    { <<"instr", "inc">>, <<"instr", "jmp">>, <<"instr", "jmp", "param", "l">>, <<"A">> }

RECURSIVE ClaimEval(_, _)
\* The value of an expression under a valuation of the columns.
ClaimEval(e, env) ==
    CASE e.kind = "Number" -> e.value % FieldModulus
      [] e.kind = "PolynomialReference" -> env[e.name]
      [] e.kind = "BinaryOperation" ->
            CASE e.op = "Add" ->
                    (ClaimEval(e.left, env) + ClaimEval(e.right, env)) % FieldModulus
              [] e.op = "Sub" ->
                    (ClaimEval(e.left, env) + FieldModulus - ClaimEval(e.right, env))
                        % FieldModulus
              [] e.op = "Mul" ->
                    (ClaimEval(e.left, env) * ClaimEval(e.right, env)) % FieldModulus

RECURSIVE ClaimSum(_, _)
\* The sum of f over 1..n in the field.
ClaimSum(f, n) == IF n = 0 THEN 0 ELSE (ClaimSum(f, n - 1) + f[n]) % FieldModulus

\* C9: for a register with conditioned updates (f1,v1)..(fn,vn) and optional
\* default d, update_expression returns d (or none) when n = 0, the sum of
\* fi*vi when n > 0 and there is no default, and
\* (sum of fi*vi) + (1 - sum of fi)*d when n > 0 and there is a default.
C9_UpdateExpression ==
    upd_result # <<>> =>
        LET cu == upd_register.conditioned_updates
            d == upd_register.default_update
            n == Len(cu)
        IN IF n = 0 THEN upd_result[1] = d
           ELSE /\ upd_result[1] # <<>>
                /\ \A env \in [ClaimUpdColumns -> FieldElements] :
                      LET fv == ClaimSum([i \in 1..n |->
                                    (ClaimEval(cu[i][1], env) * ClaimEval(cu[i][2], env))
                                        % FieldModulus], n)
                          fs == ClaimSum([i \in 1..n |-> ClaimEval(cu[i][1], env)], n)
                      IN ClaimEval(upd_result[1][1], env) =
                            IF d = <<>> THEN fv
                            ELSE (fv + ((1 + FieldModulus - fs) % FieldModulus)
                                          * ClaimEval(d[1], env)) % FieldModulus

\* Witness of C9: update_expression has returned for a register with two
\* conditioned updates and a default.
C9_Witness ==
    /\ upd_result # <<>>
    /\ Len(upd_register.conditioned_updates) = 2
    /\ upd_register.conditioned_updates[1][1] # upd_register.conditioned_updates[2][1]
    /\ upd_register.default_update # <<>>

(***************************************************************************)
(* Claims about the identity of the program counter (checked under         *)
(* SpecDecl)                                                               *)
(***************************************************************************)

RECURSIVE ClaimReferences(_)
\* The columns an expression refers to, each with the row it is read on
\* (TRUE for the next row).
ClaimReferences(e) ==
    CASE e.kind = "PolynomialReference" -> {<<e.name, e.next>>}
      [] e.kind = "BinaryOperation" -> ClaimReferences(e.left) \cup ClaimReferences(e.right)
      [] e.kind = "UnaryOperation" -> ClaimReferences(e.expr)
      [] OTHER -> {}

ClaimFirstStepNext == <<<<"first_step">>, TRUE>>

RECURSIVE ClaimEvalRow(_, _, _)
\* The value of an expression on a pair of rows: first is the value of
\* first_step on the next row, row gives the value of every other column on
\* the current and on the next row.
ClaimEvalRow(e, row, first) ==
    CASE e.kind = "Number" -> e.value % FieldModulus
      [] e.kind = "PolynomialReference" ->
            IF <<e.name, e.next>> = ClaimFirstStepNext THEN first
            ELSE row[<<e.name, e.next>>]
      [] e.kind = "BinaryOperation" ->
            CASE e.op = "Add" ->
                    (ClaimEvalRow(e.left, row, first) + ClaimEvalRow(e.right, row, first))
                        % FieldModulus
              [] e.op = "Sub" ->
                    (ClaimEvalRow(e.left, row, first) + FieldModulus
                        - ClaimEvalRow(e.right, row, first)) % FieldModulus
              [] e.op = "Mul" ->
                    (ClaimEvalRow(e.left, row, first) * ClaimEvalRow(e.right, row, first))
                        % FieldModulus

\* The identities of the output of the form next(name) = ...
ClaimUpdateIdentities(name) ==
    {k \in DOMAIN conv_out :
        /\ conv_out[k].kind = "PolynomialIdentity"
        /\ conv_out[k].expr.kind = "BinaryOperation"
        /\ conv_out[k].expr.op = "Sub"
        /\ conv_out[k].expr.left = next_reference(name)}

\* The rows an expression is read on: every column of the expression other
\* than first_step on the next row takes any value of the field.
ClaimRowValuations(e) ==
    [ClaimReferences(e) \ {ClaimFirstStepNext} -> FieldElements]

\* C25: the identity emitted for the program counter is
\* pc' = (1 - first_step') * U with U the update synthesized from the
\* conditioned updates of pc and its default pc + 1, and no other register's
\* identity carries the factor; on every pair of rows that satisfies the
\* identity pc' is 0 if first_step is 1 on the next row, whatever the flags,
\* and pc' is U otherwise (the identity is pc' - right = 0, so pc' is the
\* value of its right side on the rows that satisfy it).
C25_PcForcedToZero ==
    (ConvDone /\ ClaimIsDeclared(<<"pc">>)) =>
       LET pc == converter.registers[<<"pc">>]
           U == update_expression(pc)[1]
       IN /\ pc.default_update
                = Some(build_add(direct_reference(<<"pc">>), build_number(1)))
          /\ Cardinality(ClaimUpdateIdentities(<<"pc">>)) = 1
          /\ \A k \in ClaimUpdateIdentities(<<"pc">>) :
                /\ conv_out[k].expr.right =
                      build_mul(build_sub(build_number(1),
                                          next_reference(<<"first_step">>)), U)
                /\ \A row \in ClaimRowValuations(conv_out[k].expr.right) :
                      \A first \in {0, 1} :
                         ClaimEvalRow(conv_out[k].expr.right, row, first) =
                            IF first = 1 THEN 0 ELSE ClaimEvalRow(U, row, first)
          /\ \A name \in DOMAIN converter.registers \ {<<"pc">>} :
                \A k \in ClaimUpdateIdentities(name) :
                   conv_out[k].expr.right = update_expression(converter.registers[name])[1]

\* convert returns for a machine whose program counter has the conditioned
\* update of jmp, and whose register A has an identity of its own.
C25_Witness ==
    /\ ConvDone
    /\ ClaimIsDeclared(<<"pc">>)
    /\ Len(converter.registers[<<"pc">>].conditioned_updates) = 1
    /\ ClaimUpdateIdentities(<<"pc">>) # {}
    /\ ClaimUpdateIdentities(<<"A">>) # {}
    /\ handled # <<>>

=============================================================================
